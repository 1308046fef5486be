-------------------------- MODULE MCAdministration --------------------------
(* Constants of the checked instances of Administration. *)
EXTENDS Administration, TLC

CONSTANTS r1, r2, r3, b1, b2, b3, n1, n2, n3, a1, a2, d1, f1

RequestSymmetry == Permutations(Requests)

(* A file that is all right, with a blank row; one with a row that cannot   *)
(* be mapped after one that can; one whose second row the database refuses. *)
ThreeFiles == {<<"blank", "fine">>, <<"fine", "unmapped">>, <<"fine", "long">>}

Row(t, b, v) == [table |-> t, brand |-> b, value |-> v, by |-> NoRequest]

(* b1 and b2 exist; b3 does not yet. *)
TwoBrands == {Row("name", b1, n1), Row("name", b2, n2), Row("alias", b1, a1)}

Put(b, f) == [kind |-> "update", brand |-> b, fields |-> f]

(* The edits of the settings page, which give one list; edits of several    *)
(* fields, one of them to a name that is taken; a brand that does not exist *)
(* yet.                                                                     *)
SomeEdits ==
    {Put(b1, [alias |-> {a1}]),
     Put(b1, [alias |-> {a2}]),
     Put(b1, [name |-> {n2}, alias |-> {a1}]),
     Put(b1, [alias |-> {a1, a2}, domain |-> {d1}]),
     Put(b2, [name |-> {n3}]),
     Put(b2, [domain |-> {d1}]),
     Put(b3, [alias |-> {}]),
     [kind |-> "create", brand |-> b3,
      fields |-> [name |-> {n3}, alias |-> {a1}, domain |-> {d1}]]}
=============================================================================
