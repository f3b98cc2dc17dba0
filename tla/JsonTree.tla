------------------------------ MODULE JsonTree ------------------------------
(***************************************************************************)
(* A JSON value as a function from paths to nodes.  A path is the sequence *)
(* of positions, from one, that leads from the outermost value to a node;  *)
(* a node is a kind with the characters of a string or the digits of a     *)
(* number, how many values are directly in it, and the keys of an object   *)
(* in their order.                                                         *)
(***************************************************************************)
EXTENDS Integers, Sequences, SequencesExt

CONSTANT Character  \* named by strings; one of each class the code tells apart is enough

Text == Seq(Character)
Kinds == {"string", "integer", "float", "boolean", "null", "array", "object"}
Node == [kind : Kinds, text : Text, size : Nat, keys : Seq(Text)]

Scalar(kind, text) == [kind |-> kind, text |-> text, size |-> 0, keys |-> << >>]
Array(size) == [kind |-> "array", text |-> << >>, size |-> size, keys |-> << >>]
Object(keys) == [kind |-> "object", text |-> << >>, size |-> Len(keys), keys |-> keys]

Children(path, positions) == {Append(path, i) : i \in positions}

(* What json.loads makes of a message: every node but the outermost is in  *)
(* one that is there, and the keys of an object are different.             *)
IsNode(node) ==
  /\ node \in Node
  /\ node.kind \notin {"array", "object"} => node.size = 0
  /\ node.kind # "object" => node.keys = << >>
  /\ node.kind = "object" =>
       /\ Len(node.keys) = node.size
       /\ \A i, j \in 1 .. node.size : node.keys[i] = node.keys[j] => i = j
IsTree(value) ==
  /\ << >> \in DOMAIN value
  /\ \A p \in DOMAIN value :
       /\ p \in Seq(Nat) /\ IsNode(value[p])
       /\ Children(p, 1 .. value[p].size) \subseteq DOMAIN value
       /\ \A n \in 1 .. Len(p) :
            LET above == SubSeq(p, 1, n - 1)
            IN  above \in DOMAIN value /\ p[n] \in 1 .. value[above].size

(* The order in which a recursion that goes through the values of each     *)
(* array and object from first to last meets those next to each other.     *)
Before(p, q) ==
  \E n \in DOMAIN p \cap DOMAIN q :
    p[n] < q[n] /\ \A m \in 1 .. n - 1 : p[m] = q[m]
=============================================================================
