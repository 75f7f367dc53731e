------------------------------- MODULE Browser -------------------------------
(***************************************************************************)
(* The browser: the job-event client (JobEventClient), the chat page       *)
(* (ChatPage) and the provider page (ProviderPage).  They share no state,  *)
(* and each has its API; together they are what a user looks at.           *)
(***************************************************************************)
EXTENDS JobEventClient, ChatPage, ProviderPage

\* What each keeps is of its type.
TypesOK == TypeOK /\ PageTypeOK /\ AdminTypeOK

\* What a page shows is of what the user looks at now, whatever comes back in between: a
\* message list has the messages of its session (ListsAreTheirOwn), the composer has the
\* draft of the selected session (ComposerFollowsSelection), the form has the models
\* and the verdict of the draft in it (FormIsOfItsDraft), and an answer closes the dialog
\* it was asked in (DialogWaitsForItsAnswer).
ViewsAreTheirOwn ==
  ListsAreTheirOwn /\ ComposerFollowsSelection /\ FormIsOfItsDraft /\ DialogWaitsForItsAnswer

\* Caches come to rest at what the API holds: the messages of a session under stream
\* events and fetches (SettledListIsStored), the providers under the page's own changes
\* (SettledProvidersAreStored).
SettledViewsAreStored == SettledListIsStored /\ SettledProvidersAreStored

\* The three at once; none waits for another.
BrowserParts == Spec /\ PageSpec /\ AdminSpec
=============================================================================
