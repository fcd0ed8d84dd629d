----------------------------- MODULE MCBtcRelay -----------------------------
EXTENDS BtcRelay

CONSTANTS AnyTimestamp, AnyTarget,
          MaxCheckedHeaders   \* bound: number of headers when targets are checked

(* Without the difficulty check nothing reads a timestamp or a target, so  *)
(* one of each will do, and more headers; with it the counter of active    *)
(* blocks stands still.                                                    *)
MCNext ==
    \/ DisableDifficultyCheck /\ RelayNext({AnyTimestamp}, {AnyTarget})
    \/ /\ ~DisableDifficultyCheck /\ Len(relay.BlockHeaders) < MaxCheckedHeaders
       /\ RelayNext(Timestamps, Targets)
    \/ /\ SecurityNext /\ UNCHANGED relayVars
       /\ DisableDifficultyCheck \/ UNCHANGED ActiveBlockCount

MCSpec == Init /\ [][MCNext]_vars
=============================================================================
