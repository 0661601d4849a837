-------------------------- MODULE ToolCallContract --------------------------
(***************************************************************************)
(* What the tool lifecycle promises the rest of the system about the calls *)
(* of a conversation, without sessions, locks, races or replays: a call    *)
(* gets at most one verdict and exactly one outcome, and its business      *)
(* effect happens in the step that gives it its outcome, or never.         *)
(***************************************************************************)
EXTENDS Naturals

CONSTANTS Calls,     \* tool calls of a conversation
          Guarded,   \* those that need an approval to take effect
          Results,   \* outcomes of tools and answers of users
          None, Rejected

VARIABLES verdict,       \* the decision on each call, if any
          outcome,       \* the result of each call, if any
          applications   \* how often the effect of each call was applied

vars == <<verdict, outcome, applications>>

Init ==
  /\ verdict = [c \in Calls |-> None]
  /\ outcome = [c \in Calls |-> None]
  /\ applications = [c \in Calls |-> 0]

Open(c) == outcome[c] = None

Approve(c) ==
  /\ Open(c) /\ verdict[c] = None
  /\ verdict' = [verdict EXCEPT ![c] = "approve"]
  /\ UNCHANGED <<outcome, applications>>

Reject(c) ==
  /\ Open(c) /\ verdict[c] = None
  /\ verdict' = [verdict EXCEPT ![c] = "reject"]
  /\ outcome' = [outcome EXCEPT ![c] = Rejected]
  /\ UNCHANGED applications

(* The outcome is known without running the tool: while the call is       *)
(* prepared, or because the outcome is the answer of a user.              *)
Supply(c, p) ==
  /\ Open(c) /\ verdict[c] = None
  /\ outcome' = [outcome EXCEPT ![c] = p]
  /\ UNCHANGED <<verdict, applications>>

(* Running the tool: the effect and its outcome become visible together. *)
Apply(c, p) ==
  /\ Open(c)
  /\ c \in Guarded => verdict[c] = "approve"
  /\ applications[c] = 0
  /\ outcome' = [outcome EXCEPT ![c] = p]
  /\ applications' = [applications EXCEPT ![c] = 1]
  /\ UNCHANGED verdict

Next == \E c \in Calls :
  \/ Approve(c)
  \/ Reject(c)
  \/ \E p \in Results : Supply(c, p) \/ Apply(c, p)

Spec == Init /\ [][Next]_vars

=============================================================================
