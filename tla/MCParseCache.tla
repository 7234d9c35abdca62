---------------------------- MODULE MCParseCache ----------------------------
(***************************************************************************)
(* Small instances of ParseCache.                                          *)
(***************************************************************************)
EXTENDS ParseCache

CONSTANTS s1, s2

B(t, d, p, x) == [text |-> t, db |-> d, params |-> p, setting |-> x]

(***************************************************************************)
(* The texts "a" and "b" have one hash, "c" and the rejected "e" another.  *)
(* "bigint" and "int,int" have the same signature and different numbers of *)
(* datums.                                                                 *)
(***************************************************************************)
HashKey(t, d, g) == <<IF t \in {"a", "b"} THEN 1 ELSE 2, d, g>>
HashSig(p) == IF p = "int" THEN 1 ELSE 2
DatumCount(p) == IF p = "int,int" THEN 2 ELSE 1
HashKeys == {1, 2} \X {"master", "other"} \X {1, 2}

TwoVersions == [s \in {s1, s2} |-> IF s = s1 THEN "v1" ELSE "v2"]

Mixed == {B("a", "master", "int", "on"), B("b", "master", "int", "on"),
          B("a", "other", "int", "on"), B("a", "master", "bigint", "on"),
          B("a", "master", "int,int", "on"), B("u", "master", "int", "off"),
          B("e", "master", "int", "on")}
Toggled == {B("a", "master", "int", "on"), B("a", "master", "int", "off")}
=============================================================================
