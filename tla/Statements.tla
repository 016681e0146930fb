------------------------------ MODULE Statements ------------------------------
(***************************************************************************)
(* The crypto glue is written in one way: a function acquires objects one  *)
(* after another, any step may fail and jumps to Exit, and Exit gives back *)
(* what is not handed over.  Such a function is a Script: the statements   *)
(* of its body and those at its Exit label, each on a pointer.  A crypto   *)
(* call that can fail is Try, whatever it computes.  Ownership runs the    *)
(* scripts of KeyExCode and CryptoCode.                                    *)
(***************************************************************************)
EXTENDS Sequences

(***************************************************************************)
(* Statements.  when: "any", or only if the function failed ("bad"),       *)
(* succeeded ("good"), was asked to release its context ("release") or was *)
(* given no place for a secret ("null"); guard: a pointer that has to be   *)
(* non-null.                                                               *)
(***************************************************************************)
Stmt(kind, p, q) == [kind |-> kind, p |-> p, q |-> q, when |-> "any", guard |-> "-",
                     release |-> FALSE, wants |-> FALSE]
New(p) == Stmt("new", p, "-")
NewMaybe(p) == Stmt("maybe", p, "-")
Try(p) == Stmt("try", p, "-")
Free(p) == [Stmt("free", p, "-") EXCEPT !.guard = p]
Clear(p) == Stmt("clear", p, "-")
Copy(p, q) == Stmt("copy", p, q)
UpRef(p) == Stmt("ref", p, "-")
Stop == [Stmt("stop", "-", "-") EXCEPT !.when = "null"]
Call(f) == Stmt("call", "-", f)
CallLax(f) == Stmt("lax", "-", f)   \* the caller goes on whatever the result
CallWith(f, release, wants) == [Call(f) EXCEPT !.release = release, !.wants = wants]
When(w, s) == [s EXCEPT !.when = w]
NonNull(p, s) == [s EXCEPT !.guard = p]
Script(locals, body, exit) == [locals |-> locals, body |-> body, exit |-> exit]
GiveBack(p) == << When("bad", Free(p)), When("bad", Clear(p)) >>
===============================================================================
