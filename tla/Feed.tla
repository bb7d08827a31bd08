-------------------------------- MODULE Feed --------------------------------
(***************************************************************************)
(* What the in-process bus promises its consumers, and nothing of how.     *)
(*                                                                         *)
(* Every instrument has its own sequence of ticks, numbered 1, 2, 3, ...   *)
(* by the Sequencer.  Each subscriber reads a strictly increasing          *)
(* subsequence of it: a tick may be missing (dropped, superseded or        *)
(* filtered), but none is repeated, reordered or invented.                 *)
(*                                                                         *)
(* The in-process bus is one implementation of this interface              *)
(* (bus/bus.go names a network bus as the next one).                       *)
(***************************************************************************)
EXTENDS Naturals

CONSTANTS Subscribers, Instruments

VARIABLES published, (* published[i]: number of the newest tick of i       *)
          seen,      (* seen[s][i]: number of the last tick of i read by s *)
          reads      (* reads[s]: how many ticks s has read                *)

feedVars == <<published, seen, reads>>

FeedInit ==
  /\ published = [i \in Instruments |-> 0]
  /\ seen = [s \in Subscribers |-> [i \in Instruments |-> 0]]
  /\ reads = [s \in Subscribers |-> 0]

(* The pipeline numbers one more tick of instrument i. *)
FeedAssign(i) ==
  /\ published' = [published EXCEPT ![i] = @ + 1]
  /\ UNCHANGED <<seen, reads>>

(* Subscriber s reads tick n of instrument i, later than all it has read. *)
FeedRead(s, i) ==
  \E n \in (seen[s][i] + 1) .. published[i] :
    /\ seen' = [seen EXCEPT ![s][i] = n]
    /\ reads' = [reads EXCEPT ![s] = @ + 1]
    /\ UNCHANGED published

FeedNext ==
  \/ \E i \in Instruments : FeedAssign(i)
  \/ \E s \in Subscribers, i \in Instruments : FeedRead(s, i)

FeedSpec == FeedInit /\ [][FeedNext]_feedVars
=============================================================================
