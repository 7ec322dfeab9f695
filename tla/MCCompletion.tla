---------------------------- MODULE MCCompletion ----------------------------
(* Small instances of completion for TLC. *)
EXTENDS Completion

CONSTANTS base, mid, top, odd, ci, ann, bot

Kinds == [a \in Actors |-> CASE a = ci -> "system" [] a = ann -> "human" [] a = bot -> "agent"]
Persons == [a \in Actors |-> IF a = bot THEN ann ELSE a]
Teams == [w \in Works |-> CASE w = base -> {ci, ann} [] w = odd -> {ci, bot} [] OTHER -> {ann}]
ReviewersOf == [w \in Works |-> {ann}]

C(policy, version, requires) == [policy |-> policy, version |-> version, requires |-> requires]
On(p, mode) == [q \in {p} |-> mode]

Confirm == "ordinary_confirm"
Trusted == "trusted_execution_and_review"
Self == "trusted_execution_and_author_self_review"

Idle == C(Confirm, 0, <<>>)
Source(cu, cm, cx, cd) == [w \in Works |-> CASE w = base -> cu [] w = mid -> cm [] w = top -> cx [] w = odd -> cd]

\* A fixed delivery of a reviewed work, whose contract moves on and back.
Delivered ==
  {Source(C(Trusted, v, <<>>), C(Confirm, 4, On(base, "fixed")), Idle, Idle) : v \in {8, 2}}

\* A fixed delivery with a pull request.
Shipped == {Source(C(Trusted, 9, <<>>), C(Confirm, 4, On(base, "fixed")), Idle, Idle)}

\* A delivery that has to stay the current one.
Followed ==
  {Source(C(Trusted, v, <<>>), C(Confirm, 4, On(base, "current")), Idle, Idle) : v \in {1, 3}}

\* A chain within one workstream.
Chain ==
  {Source(C(Confirm, v, <<>>), C(Confirm, 4, On(base, "selected")), C(Confirm, 4, On(mid, "selected")), Idle)
     : v \in {3, 5}}

\* A work that is reviewed again and again.
Disputed == {Source(Idle, Idle, Idle, C(Self, 6, <<>>)), Source(Idle, Idle, Idle, C(Trusted, 7, <<>>))}

\* A delivered source moves on and back, a chain may be activated again as it is,
\* the others only move on.
InstanceProposals ==
  [s \in Delivered \cup Shipped \cup Followed \cup Chain \cup Disputed |->
     IF s \in Delivered THEN Delivered \ {s}
     ELSE IF s \in Chain THEN {n \in Chain : n[base].version >= s[base].version}
     ELSE {n \in CHOOSE S \in {Shipped, Followed, Disputed} : s \in S : \E w \in Works : n[w].version > s[w].version}]

\* What is done under a contract is bounded by its version, so that each scenario
\* has room where its hazard lies.
Bounds(runs, ev, reviews, accepts, says, prs) ==
  [executions |-> runs, evidence |-> ev, rounds |-> reviews, receipts |-> accepts, says |-> says, prs |-> prs]

InstanceLimit(c) ==
  CASE c.version = 0 -> Bounds(0, 0, 0, 0, {}, FALSE)
    [] c.version = 1 -> Bounds(1, 1, 1, 2, {"this"}, FALSE)
    [] c.version = 2 -> Bounds(0, 1, 1, 1, {"this"}, FALSE)
    [] c.version = 3 -> Bounds(0, 1, 0, 2, {"this"}, FALSE)
    [] c.version = 4 -> Bounds(1, 1, 0, 1, {"this"}, FALSE)
    [] c.version = 5 -> Bounds(0, 0, 0, 0, {"this"}, FALSE)
    [] c.version = 6 -> Bounds(1, 2, 2, 2, {"this", "that"}, FALSE)
    [] c.version = 7 -> Bounds(0, 0, 0, 0, {"this"}, FALSE)
    [] c.version = 8 -> Bounds(1, 1, 1, 1, {"this"}, FALSE)
    [] c.version = 9 -> Bounds(1, 1, 1, 1, {"this"}, TRUE)
=============================================================================
