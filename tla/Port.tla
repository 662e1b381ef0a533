-------------------------------- MODULE Port --------------------------------
(***************************************************************************)
(* The React front end beside the one it was ported from: what React has   *)
(* on the screen against what app.js, which draws its strip from the       *)
(* overlay as it is, would draw from the same state.                       *)
(***************************************************************************)
EXTENDS Dashboard, WebScreens

\* React's strip is about the same request, and not ahead: what it shows as done,
\* failed or complete is no less in app.js.
Behind(react, plain) ==
  /\ react.id = plain.id
  /\ \A i \in DOMAIN react.steps :
       react.steps[i] = "done" => plain.steps[i] \in {"done", "failed"}
  /\ react.tag = "Failed" => plain.tag = "Failed"
  /\ react.tag = "Complete" => plain.tag # "Live"

\* A port that memoises what the original draws afresh: between two request lists
\* React's strip, and the ceremony panels of its phones, may be behind those of
\* app.js, on the same request and never ahead; the rest of every phone, its
\* buttons among it, and the feed are the same at every moment; and so is all of
\* it once the memo is up to date.  (StripCatchesUp: it always gets there.)
PortFollows ==
  /\ RequestFeed = renderFeed
  /\ \A s \in OnScreen :
       LET react == Screen(s, activeCeremony) IN
       react = [renderPhones[s] EXCEPT !.ceremony = react.ceremony]
  /\ Behind(CeremonyStrip(activeCeremony), renderStrip)
  /\ activeCeremony = ActiveCeremony =>
       /\ CeremonyStrip(activeCeremony) = renderStrip
       /\ \A s \in OnScreen : Screen(s, activeCeremony) = renderPhones[s]
=============================================================================
