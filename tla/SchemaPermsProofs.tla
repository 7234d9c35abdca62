------------------------- MODULE SchemaPermsProofs -------------------------
(***************************************************************************)
(* Proofs about SchemaPerms, for any tables, routines, grantees and        *)
(* privileges: the ACLs of the objects stay what the records show.         *)
(***************************************************************************)
EXTENDS SchemaPerms, TLAPS

\* The schema's row is not the row of an object.
LEMMA AllIsNoObject == All \notin Objects
BY ObjectsAssumption DEF All, Objects

\* The privileges of an object are privileges.
LEMMA PrivsOfType == \A o \in Objects : PrivsOf(o) \subseteq Privs
BY DEF PrivsOf, Privs

\* The ACLs start empty, like the records.
LEMMA InitIInv == Init => IInv
BY AllIsNoObject
   DEF Init, InitOf, IInv, Shape, RecordsFit, DefaultFits, AccessIsRecorded, NoExtraAccess, NothingLost,
       Recorded, PrivsOf

\* GRANT on the schema.
LEMMA GrantSchemaKeeps ==
    ASSUME IInv, NEW g \in Grantees, NEW P \in SUBSET Privs, GrantSchema(g, P)
    PROVE  IInv'
<1>0. Shape /\ RecordsFit /\ DefaultFits /\ NoExtraAccess /\ NothingLost
  BY DEF IInv, AccessIsRecorded
<1>1. Shape'
  BY <1>0 DEF Shape, GrantSchema, Added
<1>2. /\ \A o \in Objects : rows'[o] = rows[o]
      /\ \A h \in Grantees : rows'[All][h] = IF h = g THEN rows[All][h] \cup P ELSE rows[All][h]
      /\ \A h \in Grantees : deflt'[h] = IF h = g THEN deflt[h] \cup (P \cap TablePrivs) ELSE deflt[h]
      /\ objs' = objs /\ stmts' = stmts
  BY <1>0, AllIsNoObject DEF Shape, GrantSchema, Added
<1>3. \A o \in objs, h \in Grantees :
         acl'[o][h] = IF h = g THEN acl[o][h] \cup (P \cap PrivsOf(o)) ELSE acl[o][h]
  BY <1>0 DEF Shape, GrantSchema
<1>4. RecordsFit'
  <2> SUFFICES ASSUME NEW n \in Objects, NEW h \in Grantees
               PROVE  rows'[n][h] \subseteq PrivsOf(n) /\ (n \notin objs' => rows'[n][h] = {})
    BY DEF RecordsFit, PrivsOf
  <2>1. rows[n][h] \subseteq PrivsOf(n) /\ (n \notin objs => rows[n][h] = {})
    BY <1>0 DEF RecordsFit
  <2>. QED
    BY <1>2, <1>3, <2>1
<1>5. DefaultFits'
  BY <1>0, <1>2, <1>3 DEF DefaultFits
<1>6. NoExtraAccess'
  <2> SUFFICES ASSUME ~On("revoke all on routine")', NEW n \in objs', NEW h \in Grantees
               PROVE  acl'[n][h] \subseteq Recorded(n, h)'
    BY DEF NoExtraAccess
  <2>1. n \in Objects /\ n \in objs /\ acl[n][h] \subseteq Recorded(n, h)
    BY <1>0, <1>2, <1>3 DEF Shape, NoExtraAccess, On
  <2>2. /\ acl'[n][h] = IF h = g THEN acl[n][h] \cup (P \cap PrivsOf(n)) ELSE acl[n][h]
        /\ rows'[n][h] = rows[n][h]
        /\ rows'[All][h] = IF h = g THEN rows[All][h] \cup P ELSE rows[All][h]
    BY <1>2, <1>3, <2>1
  <2>. QED
    BY <2>1, <2>2 DEF Recorded, PrivsOf
<1>7. NothingLost'
  <2> SUFFICES ASSUME ~On("revoke without grant")', NEW n \in objs', NEW h \in Grantees
               PROVE  Recorded(n, h)' \subseteq acl'[n][h]
    BY DEF NothingLost
  <2>1. n \in Objects /\ n \in objs /\ Recorded(n, h) \subseteq acl[n][h]
    BY <1>0, <1>2, <1>3 DEF Shape, NothingLost, On
  <2>2. /\ acl'[n][h] = IF h = g THEN acl[n][h] \cup (P \cap PrivsOf(n)) ELSE acl[n][h]
        /\ rows'[n][h] = rows[n][h]
        /\ rows'[All][h] = IF h = g THEN rows[All][h] \cup P ELSE rows[All][h]
    BY <1>2, <1>3, <2>1
  <2>. QED
    BY <2>1, <2>2 DEF Recorded, PrivsOf
<1>. QED
  BY <1>1, <1>4, <1>5, <1>6, <1>7 DEF IInv, AccessIsRecorded

\* REVOKE on the schema: what was granted on the object itself is granted back.
LEMMA RevokeSchemaKeeps ==
    ASSUME IInv, NEW g \in Grantees, NEW P \in SUBSET Privs, RevokeSchema(g, P)
    PROVE  IInv'
<1>0. Shape /\ RecordsFit /\ DefaultFits /\ NoExtraAccess /\ NothingLost
  BY DEF IInv, AccessIsRecorded
<1>1. Shape'
  <2>1. \A o \in Objects : P \cap rows[o][g] \in SUBSET Privs
    OBVIOUS
  <2>2. rows' \in [Objects \cup {All} -> [Grantees -> SUBSET Privs]]
    BY <1>0, AllIsNoObject DEF Shape, RevokeSchema, Removed
  <2>3. acl' \in [Objects -> [Grantees -> SUBSET Privs]]
    <3> SUFFICES ASSUME NEW o \in Objects PROVE acl'[o] \in [Grantees -> SUBSET Privs]
      BY DEF RevokeSchema
    <3>1. acl[o] \in [Grantees -> SUBSET Privs]
      BY <1>0 DEF Shape
    <3>2. acl'[o] = acl[o] \/ acl'[o] = [acl[o] EXCEPT ![g] = (@ \ P) \cup (P \cap rows[o][g])]
                          \/ acl'[o] = [acl[o] EXCEPT ![g] = (@ \ P) \cup {}]
      BY DEF RevokeSchema, GrantBack
    <3>. QED
      BY <2>1, <3>1, <3>2
  <2>. QED
    BY <1>0, <2>2, <2>3 DEF Shape, RevokeSchema
<1>2. /\ \A o \in Objects : rows'[o] = rows[o]
      /\ \A h \in Grantees : rows'[All][h] = IF h = g THEN rows[All][h] \ P ELSE rows[All][h]
      /\ \A h \in Grantees : deflt'[h] = IF h = g THEN deflt[h] \ P ELSE deflt[h]
      /\ objs' = objs /\ stmts' = stmts
      /\ rows[All][g] = {} => On("revoke without grant")
  BY <1>0, AllIsNoObject DEF Shape, RevokeSchema, Removed
<1>3. \A o \in objs, h \in Grantees :
         acl'[o][h] = IF h = g
                        THEN (acl[o][h] \ P) \cup (IF rows[All][g] # {} THEN P \cap rows[o][g] ELSE {})
                        ELSE acl[o][h]
  BY <1>0 DEF Shape, RevokeSchema, GrantBack
<1>4. RecordsFit'
  <2> SUFFICES ASSUME NEW n \in Objects, NEW h \in Grantees
               PROVE  rows'[n][h] \subseteq PrivsOf(n) /\ (n \notin objs' => rows'[n][h] = {})
    BY DEF RecordsFit, PrivsOf
  <2>1. rows[n][h] \subseteq PrivsOf(n) /\ (n \notin objs => rows[n][h] = {})
    BY <1>0 DEF RecordsFit
  <2>. QED
    BY <1>2, <1>3, <2>1
<1>5. DefaultFits'
  BY <1>0, <1>2, <1>3 DEF DefaultFits
<1>6. NoExtraAccess'
  <2> SUFFICES ASSUME ~On("revoke all on routine")', NEW n \in objs', NEW h \in Grantees
               PROVE  acl'[n][h] \subseteq Recorded(n, h)'
    BY DEF NoExtraAccess
  <2>1. n \in Objects /\ n \in objs /\ acl[n][h] \subseteq Recorded(n, h)
    BY <1>0, <1>2, <1>3 DEF Shape, NoExtraAccess, On
  <2>2. acl'[n][h] = IF h = g
                       THEN (acl[n][h] \ P) \cup (IF rows[All][g] # {} THEN P \cap rows[n][g] ELSE {})
                       ELSE acl[n][h]
    BY <1>3, <2>1
  <2>3. rows[n][h] \subseteq PrivsOf(n)
    BY <1>0, <2>1 DEF RecordsFit
  <2>4. /\ acl'[n][h] \subseteq IF h = g THEN (acl[n][h] \ P) \cup (P \cap rows[n][h]) ELSE acl[n][h]
        /\ rows'[n][h] = rows[n][h] /\ rows[n][h] \subseteq PrivsOf(n)
        /\ rows'[All][h] = IF h = g THEN rows[All][h] \ P ELSE rows[All][h]
    BY <1>2, <2>1, <2>2, <2>3
  <2>. QED
    BY <2>1, <2>4 DEF Recorded, PrivsOf
<1>7. NothingLost'
  <2> SUFFICES ASSUME ~On("revoke without grant")', NEW n \in objs', NEW h \in Grantees
               PROVE  Recorded(n, h)' \subseteq acl'[n][h]
    BY DEF NothingLost
  <2>1. n \in Objects /\ n \in objs /\ Recorded(n, h) \subseteq acl[n][h]
    BY <1>0, <1>2, <1>3 DEF Shape, NothingLost, On
  <2>2. rows[All][g] # {}
    BY <1>2 DEF On
  <2>3. /\ acl'[n][h] = IF h = g THEN (acl[n][h] \ P) \cup (P \cap rows[n][h]) ELSE acl[n][h]
        /\ rows'[n][h] = rows[n][h]
        /\ rows'[All][h] = IF h = g THEN rows[All][h] \ P ELSE rows[All][h]
    BY <1>2, <1>3, <2>1, <2>2
  <2>. QED
    BY <2>1, <2>3 DEF Recorded, PrivsOf
<1>. QED
  BY <1>1, <1>4, <1>5, <1>6, <1>7 DEF IInv, AccessIsRecorded

\* GRANT on an object.
LEMMA GrantObjectKeeps ==
    ASSUME IInv, NEW o \in objs, NEW g \in Grantees, NEW P \in SUBSET PrivsOf(o), GrantObject(o, g, P)
    PROVE  IInv'
<1>0. Shape /\ RecordsFit /\ DefaultFits /\ NoExtraAccess /\ NothingLost
  BY DEF IInv, AccessIsRecorded
<1>1. o \in Objects /\ P \subseteq Privs
  BY <1>0, PrivsOfType DEF Shape
<1>2. Shape'
  BY <1>0, <1>1 DEF Shape, GrantObject, Added
<1>3. /\ rows'[All] = rows[All]
      /\ \A n \in Objects, h \in Grantees :
           /\ rows'[n][h] = IF n = o /\ h = g THEN rows[n][h] \cup P ELSE rows[n][h]
           /\ acl'[n][h] = IF n = o /\ h = g THEN acl[n][h] \cup P ELSE acl[n][h]
      /\ objs' = objs /\ stmts' = stmts /\ deflt' = deflt
  BY <1>0, <1>1, AllIsNoObject DEF Shape, GrantObject, Added
<1>4. RecordsFit'
  <2> SUFFICES ASSUME NEW n \in Objects, NEW h \in Grantees
               PROVE  rows'[n][h] \subseteq PrivsOf(n) /\ (n \notin objs' => rows'[n][h] = {})
    BY DEF RecordsFit, PrivsOf
  <2>1. rows[n][h] \subseteq PrivsOf(n) /\ (n \notin objs => rows[n][h] = {})
    BY <1>0 DEF RecordsFit
  <2>. QED
    BY <1>1, <1>3, <2>1
<1>5. DefaultFits'
  BY <1>0, <1>1, <1>3 DEF DefaultFits
<1>6. NoExtraAccess'
  <2> SUFFICES ASSUME ~On("revoke all on routine")', NEW n \in objs', NEW h \in Grantees
               PROVE  acl'[n][h] \subseteq Recorded(n, h)'
    BY DEF NoExtraAccess
  <2>1. n \in Objects /\ n \in objs /\ acl[n][h] \subseteq Recorded(n, h)
    BY <1>0, <1>1, <1>3 DEF Shape, NoExtraAccess, On
  <2>2. /\ acl'[n][h] = IF n = o /\ h = g THEN acl[n][h] \cup P ELSE acl[n][h]
        /\ rows'[n][h] = IF n = o /\ h = g THEN rows[n][h] \cup P ELSE rows[n][h]
        /\ rows'[All][h] = rows[All][h]
    BY <1>1, <1>3, <2>1
  <2>. QED
    BY <2>1, <2>2 DEF Recorded, PrivsOf
<1>7. NothingLost'
  <2> SUFFICES ASSUME ~On("revoke without grant")', NEW n \in objs', NEW h \in Grantees
               PROVE  Recorded(n, h)' \subseteq acl'[n][h]
    BY DEF NothingLost
  <2>1. n \in Objects /\ n \in objs /\ Recorded(n, h) \subseteq acl[n][h]
    BY <1>0, <1>1, <1>3 DEF Shape, NothingLost, On
  <2>2. /\ acl'[n][h] = IF n = o /\ h = g THEN acl[n][h] \cup P ELSE acl[n][h]
        /\ rows'[n][h] = IF n = o /\ h = g THEN rows[n][h] \cup P ELSE rows[n][h]
        /\ rows'[All][h] = rows[All][h]
    BY <1>1, <1>3, <2>1
  <2>. QED
    BY <2>1, <2>2 DEF Recorded, PrivsOf
<1>. QED
  BY <1>2, <1>4, <1>5, <1>6, <1>7 DEF IInv, AccessIsRecorded

\* REVOKE on an object: what is granted on the schema stays.
LEMMA RevokeObjectKeeps ==
    ASSUME IInv, NEW o \in objs, NEW g \in Grantees, NEW P \in SUBSET PrivsOf(o), RevokeObject(o, g, P)
    PROVE  IInv'
<1>0. Shape /\ RecordsFit /\ DefaultFits /\ NoExtraAccess /\ NothingLost
  BY DEF IInv, AccessIsRecorded
<1>1. o \in Objects
  BY <1>0 DEF Shape
<1>2. Shape'
  BY <1>0, <1>1 DEF Shape, RevokeObject, Removed, Kept
<1>3. /\ rows'[All] = rows[All]
      /\ \A n \in Objects, h \in Grantees :
           /\ rows'[n][h] = IF n = o /\ h = g THEN rows[n][h] \ P ELSE rows[n][h]
           /\ acl'[n][h] = IF n = o /\ h = g THEN acl[n][h] \ (P \ rows[All][g]) ELSE acl[n][h]
      /\ objs' = objs /\ stmts' = stmts /\ deflt' = deflt
  BY <1>0, <1>1, AllIsNoObject DEF Shape, RevokeObject, Removed, Kept
<1>4. RecordsFit'
  <2> SUFFICES ASSUME NEW n \in Objects, NEW h \in Grantees
               PROVE  rows'[n][h] \subseteq PrivsOf(n) /\ (n \notin objs' => rows'[n][h] = {})
    BY DEF RecordsFit, PrivsOf
  <2>1. rows[n][h] \subseteq PrivsOf(n) /\ (n \notin objs => rows[n][h] = {})
    BY <1>0 DEF RecordsFit
  <2>. QED
    BY <1>1, <1>3, <2>1
<1>5. DefaultFits'
  BY <1>0, <1>1, <1>3 DEF DefaultFits
<1>6. NoExtraAccess'
  <2> SUFFICES ASSUME ~On("revoke all on routine")', NEW n \in objs', NEW h \in Grantees
               PROVE  acl'[n][h] \subseteq Recorded(n, h)'
    BY DEF NoExtraAccess
  <2>1. n \in Objects /\ n \in objs /\ acl[n][h] \subseteq Recorded(n, h)
    BY <1>0, <1>1, <1>3 DEF Shape, NoExtraAccess, On
  <2>2. /\ acl'[n][h] = IF n = o /\ h = g THEN acl[n][h] \ (P \ rows[All][h]) ELSE acl[n][h]
        /\ rows'[n][h] = IF n = o /\ h = g THEN rows[n][h] \ P ELSE rows[n][h]
        /\ rows'[All][h] = rows[All][h]
    BY <1>1, <1>3, <2>1
  <2>. QED
    BY <2>1, <2>2 DEF Recorded, PrivsOf
<1>7. NothingLost'
  <2> SUFFICES ASSUME ~On("revoke without grant")', NEW n \in objs', NEW h \in Grantees
               PROVE  Recorded(n, h)' \subseteq acl'[n][h]
    BY DEF NothingLost
  <2>1. n \in Objects /\ n \in objs /\ Recorded(n, h) \subseteq acl[n][h]
    BY <1>0, <1>1, <1>3 DEF Shape, NothingLost, On
  <2>2. /\ acl'[n][h] = IF n = o /\ h = g THEN acl[n][h] \ (P \ rows[All][h]) ELSE acl[n][h]
        /\ rows'[n][h] = IF n = o /\ h = g THEN rows[n][h] \ P ELSE rows[n][h]
        /\ rows'[All][h] = rows[All][h]
    BY <1>1, <1>3, <2>1
  <2>. QED
    BY <2>1, <2>2 DEF Recorded, PrivsOf
<1>. QED
  BY <1>2, <1>4, <1>5, <1>6, <1>7 DEF IInv, AccessIsRecorded

\* REVOKE ALL on a routine: it may leave more than the records, never less.
LEMMA RevokeAllKeeps ==
    ASSUME IInv, NEW o \in objs \cap Functions, NEW g \in Grantees, RevokeAllOnRoutine(o, g)
    PROVE  IInv'
<1>0. Shape /\ RecordsFit /\ DefaultFits /\ NoExtraAccess /\ NothingLost
  BY DEF IInv, AccessIsRecorded
<1>1. o \in Objects /\ o \notin Tables
  BY <1>0, ObjectsAssumption DEF Shape
<1>2. Shape'
  BY <1>0, <1>1 DEF Shape, RevokeAllOnRoutine, Removed
<1>3. /\ rows'[All] = rows[All]
      /\ \A n \in Objects, h \in Grantees :
           /\ rows'[n][h] = IF n = o /\ h = g THEN rows[n][h] \ {"execute"} ELSE rows[n][h]
           /\ acl'[n][h] = IF n = o /\ h = g /\ rows[All][g] = {} THEN {} ELSE acl[n][h]
      /\ objs' = objs /\ stmts' = stmts /\ deflt' = deflt /\ On("revoke all on routine")
  BY <1>0, <1>1, AllIsNoObject DEF Shape, RevokeAllOnRoutine, Removed
<1>4. RecordsFit'
  <2> SUFFICES ASSUME NEW n \in Objects, NEW h \in Grantees
               PROVE  rows'[n][h] \subseteq PrivsOf(n) /\ (n \notin objs' => rows'[n][h] = {})
    BY DEF RecordsFit, PrivsOf
  <2>1. rows[n][h] \subseteq PrivsOf(n) /\ (n \notin objs => rows[n][h] = {})
    BY <1>0 DEF RecordsFit
  <2>. QED
    BY <1>1, <1>3, <2>1
<1>5. DefaultFits'
  BY <1>0, <1>1, <1>3 DEF DefaultFits
<1>6. NoExtraAccess'
  <2> SUFFICES ASSUME ~On("revoke all on routine")', NEW n \in objs', NEW h \in Grantees
               PROVE  acl'[n][h] \subseteq Recorded(n, h)'
    BY DEF NoExtraAccess
  <2>1. n \in Objects /\ n \in objs /\ acl[n][h] \subseteq Recorded(n, h)
    BY <1>0, <1>1, <1>3 DEF Shape, NoExtraAccess, On
  <2>2. /\ acl'[n][h] = IF n = o /\ h = g /\ rows[All][h] = {} THEN {} ELSE acl[n][h]
        /\ rows'[n][h] = IF n = o /\ h = g THEN rows[n][h] \ {"execute"} ELSE rows[n][h]
        /\ rows'[All][h] = rows[All][h]
        /\ n = o => n \notin Tables
    BY <1>1, <1>3, <2>1
  <2>. QED
    BY <2>1, <2>2 DEF Recorded, PrivsOf
<1>7. NothingLost'
  <2> SUFFICES ASSUME ~On("revoke without grant")', NEW n \in objs', NEW h \in Grantees
               PROVE  Recorded(n, h)' \subseteq acl'[n][h]
    BY DEF NothingLost
  <2>1. n \in Objects /\ n \in objs /\ Recorded(n, h) \subseteq acl[n][h]
    BY <1>0, <1>1, <1>3 DEF Shape, NothingLost, On
  <2>2. /\ acl'[n][h] = IF n = o /\ h = g /\ rows[All][h] = {} THEN {} ELSE acl[n][h]
        /\ rows'[n][h] = IF n = o /\ h = g THEN rows[n][h] \ {"execute"} ELSE rows[n][h]
        /\ rows'[All][h] = rows[All][h]
        /\ n = o => n \notin Tables
    BY <1>1, <1>3, <2>1
  <2>. QED
    BY <2>1, <2>2 DEF Recorded, PrivsOf
<1>. QED
  BY <1>2, <1>4, <1>5, <1>6, <1>7 DEF IInv, AccessIsRecorded

\* CREATE: a table starts with the default ACL, a routine with the schema's row.
LEMMA CreateKeeps ==
    ASSUME IInv, NEW o \in Objects, Create(o)
    PROVE  IInv'
<1>0. Shape /\ RecordsFit /\ DefaultFits /\ NoExtraAccess /\ NothingLost
  BY DEF IInv, AccessIsRecorded
<1>1. Shape'
  BY <1>0, AllIsNoObject DEF Shape, Create
<1>2. /\ rows' = rows /\ deflt' = deflt /\ stmts' = stmts /\ objs' = objs \cup {o} /\ o \notin objs
      /\ \A n \in Objects, h \in Grantees :
           acl'[n][h] = IF n = o THEN (IF o \in Tables THEN deflt[h] ELSE rows[All][h] \cap {"execute"})
                                 ELSE acl[n][h]
  BY <1>0 DEF Shape, Create
<1>3. RecordsFit'
  <2> SUFFICES ASSUME NEW n \in Objects, NEW h \in Grantees
               PROVE  rows'[n][h] \subseteq PrivsOf(n) /\ (n \notin objs' => rows'[n][h] = {})
    BY DEF RecordsFit, PrivsOf
  <2>1. rows[n][h] \subseteq PrivsOf(n) /\ (n \notin objs => rows[n][h] = {})
    BY <1>0 DEF RecordsFit
  <2>. QED
    BY <1>2, <2>1
<1>4. DefaultFits'
  BY <1>0, <1>2 DEF DefaultFits
<1>5. \A h \in Grantees : acl'[o][h] = Recorded(o, h)
  <2> SUFFICES ASSUME NEW h \in Grantees PROVE acl'[o][h] = Recorded(o, h)
    OBVIOUS
  <2>1. rows[o][h] = {} /\ deflt[h] = rows[All][h] \cap TablePrivs
    BY <1>0, <1>2 DEF RecordsFit, DefaultFits
  <2>2. acl'[o][h] = IF o \in Tables THEN deflt[h] ELSE rows[All][h] \cap {"execute"}
    BY <1>2
  <2>. QED
    BY <2>1, <2>2 DEF Recorded, PrivsOf
<1>6. \A n \in objs, h \in Grantees : acl'[n][h] = acl[n][h]
  BY <1>0, <1>2 DEF Shape
<1>7. \A n \in Objects, h \in Grantees : Recorded(n, h)' = Recorded(n, h)
  BY <1>2 DEF Recorded, PrivsOf
<1>8. \A n \in objs' : n \in Objects /\ (n = o \/ n \in objs)
  BY <1>0, <1>2 DEF Shape
<1>9. NoExtraAccess'
  <2> SUFFICES ASSUME ~On("revoke all on routine")', NEW n \in objs', NEW h \in Grantees
               PROVE  acl'[n][h] \subseteq Recorded(n, h)'
    BY DEF NoExtraAccess
  <2>1. n \in objs => acl[n][h] \subseteq Recorded(n, h)
    BY <1>0, <1>2 DEF NoExtraAccess, On
  <2>. QED
    BY <1>5, <1>6, <1>7, <1>8, <2>1
<1>10. NothingLost'
  <2> SUFFICES ASSUME ~On("revoke without grant")', NEW n \in objs', NEW h \in Grantees
               PROVE  Recorded(n, h)' \subseteq acl'[n][h]
    BY DEF NothingLost
  <2>1. n \in objs => Recorded(n, h) \subseteq acl[n][h]
    BY <1>0, <1>2 DEF NothingLost, On
  <2>. QED
    BY <1>5, <1>6, <1>7, <1>8, <2>1
<1>. QED
  BY <1>1, <1>3, <1>4, <1>9, <1>10 DEF IInv, AccessIsRecorded

\* DROP: the records of the object go with it.
LEMMA DropKeeps ==
    ASSUME IInv, NEW o \in objs, Drop(o)
    PROVE  IInv'
<1>0. Shape /\ RecordsFit /\ DefaultFits /\ NoExtraAccess /\ NothingLost
  BY DEF IInv, AccessIsRecorded
<1>1. o \in Objects
  BY <1>0 DEF Shape
<1>2. Shape'
  BY <1>0, <1>1, AllIsNoObject DEF Shape, Drop, CleanUp
<1>3. /\ rows'[All] = rows[All] /\ deflt' = deflt /\ stmts' = stmts /\ objs' = objs \ {o}
      /\ \A n \in Objects, h \in Grantees :
           /\ rows'[n][h] = IF n = o THEN {} ELSE rows[n][h]
           /\ acl'[n][h] = IF n = o THEN {} ELSE acl[n][h]
  BY <1>0, <1>1, AllIsNoObject DEF Shape, Drop, CleanUp
<1>4. RecordsFit'
  <2> SUFFICES ASSUME NEW n \in Objects, NEW h \in Grantees
               PROVE  rows'[n][h] \subseteq PrivsOf(n) /\ (n \notin objs' => rows'[n][h] = {})
    BY DEF RecordsFit, PrivsOf
  <2>1. rows[n][h] \subseteq PrivsOf(n) /\ (n \notin objs => rows[n][h] = {})
    BY <1>0 DEF RecordsFit
  <2>. QED
    BY <1>1, <1>3, <2>1
<1>5. DefaultFits'
  BY <1>0, <1>1, <1>3 DEF DefaultFits
<1>6. NoExtraAccess'
  <2> SUFFICES ASSUME ~On("revoke all on routine")', NEW n \in objs', NEW h \in Grantees
               PROVE  acl'[n][h] \subseteq Recorded(n, h)'
    BY DEF NoExtraAccess
  <2>1. n \in Objects /\ n \in objs /\ acl[n][h] \subseteq Recorded(n, h)
    BY <1>0, <1>1, <1>3 DEF Shape, NoExtraAccess, On
  <2>2. /\ acl'[n][h] = acl[n][h]
        /\ rows'[n][h] = rows[n][h]
        /\ rows'[All][h] = rows[All][h]
    BY <1>1, <1>3, <2>1
  <2>. QED
    BY <2>1, <2>2 DEF Recorded, PrivsOf
<1>7. NothingLost'
  <2> SUFFICES ASSUME ~On("revoke without grant")', NEW n \in objs', NEW h \in Grantees
               PROVE  Recorded(n, h)' \subseteq acl'[n][h]
    BY DEF NothingLost
  <2>1. n \in Objects /\ n \in objs /\ Recorded(n, h) \subseteq acl[n][h]
    BY <1>0, <1>1, <1>3 DEF Shape, NothingLost, On
  <2>2. /\ acl'[n][h] = acl[n][h]
        /\ rows'[n][h] = rows[n][h]
        /\ rows'[All][h] = rows[All][h]
    BY <1>1, <1>3, <2>1
  <2>. QED
    BY <2>1, <2>2 DEF Recorded, PrivsOf
<1>. QED
  BY <1>2, <1>4, <1>5, <1>6, <1>7 DEF IInv, AccessIsRecorded

\* A user dropped and created again starts with nothing.
LEMMA RecreateKeeps ==
    ASSUME IInv, NEW g \in Grantees, Recreate(g)
    PROVE  IInv'
<1>0. Shape /\ RecordsFit /\ DefaultFits /\ NoExtraAccess /\ NothingLost
  BY DEF IInv, AccessIsRecorded
<1>1. Shape'
  BY <1>0 DEF Shape, Recreate
<1>2. /\ deflt' = [deflt EXCEPT ![g] = {}] /\ stmts' = stmts /\ objs' = objs
      /\ \A n \in Objects \cup {All}, h \in Grantees : rows'[n][h] = IF h = g THEN {} ELSE rows[n][h]
      /\ \A n \in Objects, h \in Grantees : acl'[n][h] = IF h = g THEN {} ELSE acl[n][h]
  BY <1>0 DEF Shape, Recreate
<1>3. RecordsFit'
  <2> SUFFICES ASSUME NEW n \in Objects, NEW h \in Grantees
               PROVE  rows'[n][h] \subseteq PrivsOf(n) /\ (n \notin objs' => rows'[n][h] = {})
    BY DEF RecordsFit, PrivsOf
  <2>1. rows[n][h] \subseteq PrivsOf(n) /\ (n \notin objs => rows[n][h] = {})
    BY <1>0 DEF RecordsFit
  <2>. QED
    BY <1>2, <2>1
<1>4. DefaultFits'
  BY <1>0, <1>2 DEF DefaultFits, Shape
<1>5. NoExtraAccess'
  <2> SUFFICES ASSUME ~On("revoke all on routine")', NEW n \in objs', NEW h \in Grantees
               PROVE  acl'[n][h] \subseteq Recorded(n, h)'
    BY DEF NoExtraAccess
  <2>1. n \in Objects /\ n \in objs /\ acl[n][h] \subseteq Recorded(n, h)
    BY <1>0, <1>2 DEF Shape, NoExtraAccess, On
  <2>2. /\ acl'[n][h] = IF h = g THEN {} ELSE acl[n][h]
        /\ rows'[n][h] = IF h = g THEN {} ELSE rows[n][h]
        /\ rows'[All][h] = IF h = g THEN {} ELSE rows[All][h]
    BY <1>2, <2>1
  <2>. QED
    BY <2>1, <2>2 DEF Recorded, PrivsOf
<1>6. NothingLost'
  <2> SUFFICES ASSUME ~On("revoke without grant")', NEW n \in objs', NEW h \in Grantees
               PROVE  Recorded(n, h)' \subseteq acl'[n][h]
    BY DEF NothingLost
  <2>1. n \in Objects /\ n \in objs /\ Recorded(n, h) \subseteq acl[n][h]
    BY <1>0, <1>2 DEF Shape, NothingLost, On
  <2>2. /\ acl'[n][h] = IF h = g THEN {} ELSE acl[n][h]
        /\ rows'[n][h] = IF h = g THEN {} ELSE rows[n][h]
        /\ rows'[All][h] = IF h = g THEN {} ELSE rows[All][h]
    BY <1>2, <2>1
  <2>. QED
    BY <2>1, <2>2 DEF Recorded, PrivsOf
<1>. QED
  BY <1>1, <1>3, <1>4, <1>5, <1>6 DEF IInv, AccessIsRecorded

\* Every statement keeps the invariant.
LEMMA NextIInv == IInv /\ [Next]_vars => IInv'
<1> SUFFICES ASSUME IInv, [Next]_vars PROVE IInv'
  OBVIOUS
<1>1. ASSUME NEW g \in Grantees, NEW P \in SUBSET Privs, GrantSchema(g, P) \/ RevokeSchema(g, P)
      PROVE  IInv'
  BY <1>1, GrantSchemaKeeps, RevokeSchemaKeeps
<1>2. ASSUME NEW o \in objs, NEW g \in Grantees, NEW P \in SUBSET PrivsOf(o),
             GrantObject(o, g, P) \/ RevokeObject(o, g, P)
      PROVE  IInv'
  BY <1>2, GrantObjectKeeps, RevokeObjectKeeps
<1>3. CASE UNCHANGED vars
  BY <1>3 DEF vars, IInv, Shape, RecordsFit, DefaultFits, AccessIsRecorded, NoExtraAccess,
              NothingLost, Recorded, On, PrivsOf
<1>. QED
  BY <1>1, <1>2, <1>3, RevokeAllKeeps, CreateKeeps, DropKeeps, RecreateKeeps DEF Next

\* The ACLs are what babelfish_schema_permissions records, through any sequence
\* of grants, revokes, creates and drops.
THEOREM AccessStaysRecorded == Spec => []AccessIsRecorded
<1>1. IInv => AccessIsRecorded
  BY DEF IInv
<1>. QED
  BY <1>1, InitIInv, NextIInv, PTL DEF Spec
=============================================================================
