--------------------------- MODULE MCSessionCore ---------------------------
(* SessionCore for TLC: two or three requests of as many sessions.          *)
EXTENDS SessionCore

CONSTANTS r1, r2, r3, s1, s2

\* One request per session, and a session with two requests in the queue.
MCOneEach == r1 :> s1 @@ r2 :> s2
MCShared  == r1 :> s1 @@ r2 :> s2 @@ r3 :> s1

\* Policies under which a dialog opens, is refused, or needs a captcha.
MCDefault == r1 :> "Default" @@ r2 :> "Default"
MCPolicies == r1 :> "Validation" @@ r2 :> "RequestPassword"
                @@ r3 :> "NoUserInteraction"
=============================================================================
