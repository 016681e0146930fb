------------------------------ MODULE MCEventLog ------------------------------
(* Small instances of EventLog for TLC. *)
EXTENDS EventLog, TLC

Reg(id, points, snis, ratio, appdata) ==
    [id |-> id, points |-> points, snis |-> snis, ratio |-> ratio, appdata |-> appdata]

\* Two registrations compete for one slot, and want different points.
MCRivals == {Reg(1, {"p"}, {}, 1, FALSE), Reg(2, {"q"}, {}, 1, FALSE)}
MCOneSlot == {1}

\* A registration for the server name a, and one for every connection that asks
\* for application data.
MCSubscribers == {Reg(1, {}, {"a"}, 1, FALSE), Reg(2, {}, {}, 1, TRUE)}
MCTwoSlots == 1 .. 2

\* A registration for the server name a, and one for every connection.
MCNames == {Reg(1, {}, {"a"}, 1, FALSE), Reg(2, {}, {}, 1, FALSE)}

\* The threads are interchangeable.
MCSymmetry == Permutations(Threads)
=============================================================================
