-------------------------------- MODULE Sampler --------------------------------
(***************************************************************************)
(* What a sampler of counters promises its caller, of one source: every    *)
(* report is the difference of two samples, of the count and of the clock, *)
(* where the first is the sample that the report before ended with.  The   *)
(* source may start a new life, of which nothing is promised but that it   *)
(* is the sample to go on with.                                            *)
(***************************************************************************)
EXTENDS Integers

CONSTANTS
  Width,    \* differences of the clock are taken modulo Width
  Refuses,  \* whether there is no report while the clock stands still
  Loses,    \* whether a sample may be lost
  None      \* no sample, no report

VARIABLES
  kept,   \* the sample that the next report begins with
  cand,   \* the sample that it will end with
  result  \* the report, until it is forgotten

vars == <<kept, cand, result>>

Sample == [life : Nat, count : Nat, clock : Nat]
Report == [count : Nat, clock : Nat]

Init == kept = None /\ cand = None /\ result = None

(* A source that lives on does not count backwards. *)
Follows(s) ==
  kept # None => /\ kept.life <= s.life
                 /\ kept.life = s.life => kept.count <= s.count

Take ==
  /\ cand = None
  /\ cand' \in Sample /\ Follows(cand')
  /\ UNCHANGED <<kept, result>>

(* There is nothing to compare with. *)
First ==
  /\ cand # None /\ kept = None
  /\ kept' = cand /\ cand' = None
  /\ result' = [count |-> 0, clock |-> 0]

SameLife == cand # None /\ kept # None /\ cand.life = kept.life

Compare ==
  /\ SameLife
  /\ Refuses => cand.clock # kept.clock
  /\ kept' = cand /\ cand' = None
  /\ result' = [count |-> cand.count - kept.count,
                clock |-> (cand.clock - kept.clock) % Width]

(* No time went by: there is no report, and nothing of the source is lost. *)
Refuse ==
  /\ Refuses
  /\ SameLife /\ cand.clock = kept.clock
  /\ cand' = None
  /\ result' = None
  /\ UNCHANGED kept

NewLife ==
  /\ cand # None /\ kept # None /\ cand.life # kept.life
  /\ cand' = None
  /\ \/ kept' = cand /\ result' \in Report
     \/ kept' = kept /\ result' = None

(* The source could not be sampled: what follows is a first sample again.  *)
Lose ==
  /\ Loses
  /\ cand = None
  /\ kept' = None
  /\ result' = None
  /\ UNCHANGED cand

Forget ==
  /\ result' = None
  /\ UNCHANGED <<kept, cand>>

Next == Take \/ First \/ Compare \/ Refuse \/ NewLife \/ Lose \/ Forget

Spec == Init /\ [][Next]_vars
=============================================================================
