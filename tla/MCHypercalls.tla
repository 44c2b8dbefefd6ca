---------------------------- MODULE MCHypercalls -----------------------------
(* Hypercalls for TLC: pages of two bytes, tables of two entries, three     *)
(* levels, twelve bytes of memory.                                         *)
EXTENDS Hypercalls, TLC

Entry(phy) == [present |-> TRUE, pse |-> FALSE, phy |-> phy]
Large(phy) == [present |-> TRUE, pse |-> TRUE, phy |-> phy]
None == [present |-> FALSE, pse |-> FALSE, phy |-> 0]
Table(a, b) == [i \in 0 .. 1 |-> IF i = 0 THEN a ELSE b]
Page(va, size, pa) == [va |-> va, size |-> size, pa |-> pa]

\* Four small pages in another order than the guest's addresses; more strings
\* than uhyve passes on.
Scattered ==
    [tables |-> (0 :> Table(Entry(1), None)) @@ (1 :> Table(Entry(2), Entry(3)))
             @@ (2 :> Table(Entry(6), Entry(2))) @@ (3 :> Table(Entry(0), Entry(4))),
     pages |-> {Page(0, 2, 6), Page(2, 2, 2), Page(4, 2, 0), Page(6, 2, 4)},
     argv |-> <<2, 0, 1>>, envp |-> <<1, 3>>]

\* A hole, a small page and a large page; no argument and an empty variable.
Mixed ==
    [tables |-> (0 :> Table(Entry(1), None)) @@ (1 :> Table(Entry(2), Large(4)))
             @@ (2 :> Table(None, Entry(2))),
     pages |-> {Page(2, 2, 2), Page(4, 4, 4)},
     argv |-> <<>>, envp |-> <<0>>]

MCSetups == {Scattered, Mixed}

\* From the middle of a page over two boundaries, one byte, a large page or two
\* small ones, and nothing.
Buffer(va, len) == [va |-> va, len |-> len]
MCBuffers == {Buffer(1, 4), Buffer(3, 1), Buffer(4, 4), Buffer(4, 0)}

MCNames == {[name |-> "link", real |-> "kvm"], [name |-> "new", real |-> "none"]}
=============================================================================
