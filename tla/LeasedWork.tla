---- MODULE LeasedWork ----
(***************************************************************************)
(* What the job queue of Recollect Flow promises about one piece of work,  *)
(* without items, generations, purges, clocks or calls in flight.          *)
(*                                                                         *)
(* A piece of work is offered, held by one holder at a time, and either    *)
(* delivers one output, finishes without one, or is stopped.  A holder     *)
(* loses its hold to another one only after its hold has lapsed; an output *)
(* is delivered at most once and never changes until the work is erased.   *)
(***************************************************************************)
CONSTANTS Work, Holders, Outputs, None

VARIABLES phase, holder, lapsed, output

workVars == <<phase, holder, lapsed, output>>

Phases == {"absent", "ready", "held", "done", "stopped", "erased"}

Init ==
  /\ phase = [w \in Work |-> "absent"]
  /\ holder = [w \in Work |-> None]
  /\ lapsed = [w \in Work |-> FALSE]
  /\ output = [w \in Work |-> None]

-----------------------------------------------------------------------------
(* The steps in the life of one piece of work.                             *)

Becomes(w, p, h) == phase'[w] = p /\ holder'[w] = h

Unheld(w) == lapsed'[w] = FALSE

Offered(w) ==
  phase[w] = "absent" /\ Becomes(w, "ready", None) /\ Unheld(w) /\ output'[w] = output[w]

Taken(w) ==
  /\ phase[w] = "ready" \/ (phase[w] = "held" /\ lapsed[w])
  /\ \E h \in Holders : Becomes(w, "held", h)
  /\ lapsed'[w] = FALSE
  /\ output'[w] = output[w]

Kept(w) ==
  /\ phase[w] = "held"
  /\ Becomes(w, "held", holder[w])
  /\ lapsed'[w] \in BOOLEAN
  /\ output'[w] = output[w]

GivenBack(w) ==
  phase[w] = "held" /\ Becomes(w, "ready", None) /\ Unheld(w) /\ output'[w] = output[w]

Delivered(w) ==
  /\ phase[w] = "held"
  /\ output[w] = None
  /\ Becomes(w, "done", None)
  /\ Unheld(w)
  /\ output'[w] \in Outputs

Finished(w) ==
  phase[w] = "held" /\ Becomes(w, "done", None) /\ Unheld(w) /\ output'[w] = output[w]

Stopped(w) ==
  /\ phase[w] \in {"ready", "held"}
  /\ Becomes(w, "stopped", None)
  /\ Unheld(w)
  /\ output'[w] = output[w]

Revived(w) ==
  phase[w] = "stopped" /\ Becomes(w, "ready", None) /\ Unheld(w) /\ output'[w] = output[w]

Erased(w) ==
  phase[w] # "absent" /\ Becomes(w, "erased", None) /\ Unheld(w) /\ output'[w] = None

Untouched(w) ==
  /\ Becomes(w, phase[w], holder[w])
  /\ lapsed'[w] = lapsed[w]
  /\ output'[w] = output[w]

WorkStep(w) ==
  \/ Offered(w) \/ Taken(w) \/ Kept(w) \/ GivenBack(w) \/ Delivered(w)
  \/ Finished(w) \/ Stopped(w) \/ Revived(w) \/ Erased(w) \/ Untouched(w)

\* One statement of the database may move several pieces of work at once.
Next == \A w \in Work : WorkStep(w)

Spec == Init /\ [][Next]_workVars
====
