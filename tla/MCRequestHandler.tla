-------------------------- MODULE MCRequestHandler --------------------------
(* A small instance of RequestHandler for TLC.                              *)
EXTENDS RequestHandler

(* One octet of header and up to three pieces: root, labels (the octet in   *)
(* them reads as a root, a label or a pointer to whoever jumps there), bad  *)
(* tag, cut or complete pointer; and chains of pointers up to one too many. *)
Pieces == {<<0>>, <<4>>, <<12>>, <<1, 0>>, <<1, 1>>, <<1, 12>>, <<2, 0, 12>>}
            \cup {<<12, target>> : target \in {0, 1, 2, 3, 5, 9}}
Chains == {<<0>>, <<12, 1>>, <<12, 2>>, <<12, 4>>}
Messages == {FlattenSeq(<<<<0>>>> \o pieces) :
                pieces \in BoundedSeq(Pieces, 3) \cup BoundedSeq(Chains, 4)}

(* COOKIE options of every length class, alone, behind another option and   *)
(* repeated.                                                                *)
Option(cookie, length) == [cookie |-> cookie, length |-> length]
Lists == {<<>>, <<Option(FALSE, 3)>>}
           \cup {<<Option(TRUE, n)>> : n \in {8, 15, 40}}
           \cup {<<Option(FALSE, 3), Option(TRUE, 40)>>, <<Option(TRUE, 8), Option(TRUE, 16)>>}
=============================================================================
