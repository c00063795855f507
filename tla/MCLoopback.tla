---------------------------- MODULE MCLoopback ----------------------------
(* Instances of Loopback: four drives that configs name, on one node.      *)
EXTENDS Loopback

CONSTANTS r, x, y
MCNamed == {r, x, y}

\* The serial number y contains the name of the file of x, and not the prefix.
MCWithin == {<<<<0, x>>, <<0, y>>>>}

Drive(serial, health, removed) ==
  [serial |-> serial, health |-> health, removed |-> removed, full |-> TRUE]

\* With room for one of the drives and for more, with another default size, without
\* r, with a number that was generated, and with one serial number within another.
MCConfigs ==
  {NotYAML,
   [count |-> 1, size |-> None,
    drives |-> <<Drive(<<0, r>>, "GOOD", FALSE), Drive(<<1, x>>, "GOOD", FALSE)>>],
   [count |-> 2, size |-> 30, drives |-> <<Drive(<<0, r>>, "BAD", TRUE)>>],
   [count |-> 2, size |-> 30, drives |-> <<Drive(<<1, 0>>, "BAD", FALSE)>>],
   [count |-> 2, size |-> None,
    drives |-> <<Drive(<<0, x>>, "GOOD", FALSE), Drive(<<0, y>>, "BAD", FALSE)>>]}
=============================================================================
