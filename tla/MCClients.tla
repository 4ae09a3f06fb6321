------------------------------ MODULE MCClients ------------------------------
(***************************************************************************)
(* The clients: the login session of the console's tabs, the chat of its   *)
(* playground, and the binding and text test pages of the mini program.    *)
(* They share no state, so a behaviour is one of one client: part names it *)
(* and the others stay as they began.                                       *)
(***************************************************************************)
EXTENDS WebSession, PlaygroundChat, MiniBinding, MiniTextTest

CONSTANTS tab1, tab2, sid1, sid2, acct,
    Parts       \* the clients of the run

VARIABLE part

\* A reply of two deltas that a load collapses, since it has a heading twice, and
\* then truncates.
MCReply == <<"#", "a", "b", "#", "c", "d", "e", "f">>
MCEnds == {3, 8}

\* The second delta begins with the first, like "1" and "10".
MCRepeatedReply == <<"a", "a", "b">>
MCRepeatedEnds == {1, 3}

\* The replies differ in what NothingLost depends on.
ASSUME MCReplies == Unambiguous <=> Reply = MCReply

MCInit ==
    /\ part \in Parts
    /\ WInit /\ CInit /\ BInit /\ TInit
    /\ part # "chat" => stored = <<>>

Web == part = "web" /\ WNext /\ UNCHANGED <<cvars, bvars, tvars, part>>

Chat == part = "chat" /\ CNext /\ UNCHANGED <<wvars, bvars, tvars, part>>

Bind == part = "bind" /\ BNext /\ UNCHANGED <<wvars, cvars, tvars, part>>

Test == part = "test" /\ TNext /\ UNCHANGED <<wvars, cvars, bvars, part>>

MCNext == Web \/ Chat \/ Bind \/ Test

MCSpec ==
    /\ MCInit /\ [][MCNext]_<<wvars, cvars, bvars, tvars, part>>
    /\ WFairness /\ BFairness
=============================================================================
