--------------------------- MODULE DatabaseProofs ---------------------------
(***************************************************************************)
(* Theorems about what survives the process.  About StateStore, for tables,*)
(* limits and numbers of calls of any size.  Part 1: least and greatest    *)
(* elements, the operators on tables (the new rowid is new, a trimmed table*)
(* is small, a table with distinct ids and keys stays one).  Part 2: type  *)
(* correctness and the limit.  Part 3: memory and table.  As long as no    *)
(* call has raced with the job of another, each pending job is outstanding *)
(* (memory is ahead of the table by it), and keys without a job agree.     *)
(*                                                                         *)
(* Part 4 is about StoreOpening, for every number of rows, every size of   *)
(* the batches, every set of columns and all bounds.  KeyInv follows the   *)
(* salt to the key of the file, WhereInv says for each place of the start  *)
(* which files hold the committed rows.                                    *)
(***************************************************************************)
EXTENDS StateStore, StoreOpening, FiniteSetTheorems, WellFoundedInduction, TLAPS

(***************************************************************************)
(* Numbers and finite sets.                                                *)
(***************************************************************************)

\* A nonempty set of naturals has a least element.
LEMMA LeastNat ==
    ASSUME NEW T \in SUBSET Nat, T # {}
    PROVE  \E n \in T : \A m \in T : n <= m
<1> DEFINE R == OpToRel(<, Nat)
<1>1. IsWellFoundedOn(R, Nat)
  BY NatLessThanWellFounded
<1>2. \A x, y \in Nat : x < y => <<x, y>> \in R
  BY Zenon DEF OpToRel
<1> HIDE DEF R
<1>3. PICK x \in T : \A y \in T : ~ (<<y, x>> \in R)
  BY <1>1, WFMin
<1>4. \A y \in T : ~(y < x)
  BY <1>2, <1>3
<1>5. QED
  BY <1>4

\* A nonempty set of naturals with a bound has a greatest element.
LEMMA GreatestNat ==
    ASSUME NEW T \in SUBSET Nat, T # {}, NEW b \in Nat, \A m \in T : m <= b
    PROVE  \E n \in T : \A m \in T : m <= n
<1> DEFINE B == {n \in Nat : \A m \in T : m <= n}
<1>1. PICK n \in B : \A m \in B : n <= m
  <2>1. B \in SUBSET Nat /\ b \in B
    OBVIOUS
  <2> HIDE DEF B
  <2>2. QED
    BY <2>1, LeastNat
<1>2. CASE n \in T
  BY <1>1, <1>2
<1>3. CASE n \notin T
  <2>1. \A m \in T : m < n /\ m \in Nat
    BY <1>1, <1>3
  <2>2. n - 1 \in Nat
    <3>1. PICK m \in T : TRUE
      OBVIOUS
    <3>2. n \in Nat /\ m \in Nat /\ m < n
      BY <1>1, <2>1
    <3>3. QED
      BY <3>2
  <2>3. n - 1 \in B
    BY <1>1, <2>1, <2>2
  <2>4. QED
    BY <1>1, <2>3
<1>4. QED
  BY <1>2, <1>3

(***************************************************************************)
(* The table.                                                              *)
(***************************************************************************)

\* Rows of one table: neither two with one rowid nor two with one key, finitely many.
Table(R) ==
    /\ R \subseteq Row /\ IsFiniteSet(R)
    /\ \A r, s \in R : r.id = s.id \/ r.key = s.key => r = s
    /\ \E b \in Nat : \A r \in R : r.id <= b

\* A part of a table is one.
LEMMA PartOfTable ==
    ASSUME NEW R, Table(R), NEW T \in SUBSET R
    PROVE  Table(T)
<1>1. IsFiniteSet(T)
  BY FS_Subset DEF Table
<1>2. QED
  BY <1>1 DEF Table

\* A new row comes after all others.
LEMMA NewIdIsNew ==
    ASSUME Table(rows)
    PROVE  NewId \in Nat /\ \A r \in rows : r.id < NewId
<1>1. CASE rows = {}
  BY <1>1 DEF NewId
<1>2. CASE rows # {}
  <2> DEFINE Ids == {r.id : r \in rows}
             Greatest(i) == \A r \in rows : r.id <= i
  <2>1. PICK b \in Nat : \A r \in rows : r.id <= b
    BY DEF Table
  <2>2. Ids \in SUBSET Nat /\ Ids # {} /\ \A m \in Ids : m <= b
    BY <1>2, <2>1 DEF Table, Row
  <2>3. \E n \in Ids : \A m \in Ids : m <= n
    <3> HIDE DEF Ids
    <3> QED
      BY <2>2, GreatestNat
  <2>4. \E n \in Ids : Greatest(n)
    BY <2>3
  <2>5. NewId = 1 + (CHOOSE i \in Ids : Greatest(i))
    BY <1>2 DEF NewId
  <2> DEFINE g == CHOOSE i \in Ids : Greatest(i)
  <2>6. g \in Ids /\ Greatest(g)
    <3> HIDE DEF Ids, Greatest
    <3> QED
      BY <2>4
  <2>7. g \in Nat /\ NewId = 1 + g
    BY <2>2, <2>5, <2>6
  <2>8. \A r \in rows : r.id \in Nat /\ r.id <= g
    BY <2>6 DEF Table, Row
  <2> HIDE DEF g
  <2>9. QED
    BY <2>7, <2>8
<1>3. QED
  BY <1>1, <1>2

\* A trimmed table is within the limit: the rows after its oldest are fewer than Max.
LEMMA TrimmedIsSmall ==
    ASSUME NEW R, Table(R)
    PROVE  Table(Trimmed(R)) /\ Cardinality(Trimmed(R)) <= Max
<1> DEFINE T == Trimmed(R)
<1>1. T \in SUBSET R
  BY DEF Trimmed
<1>2. Table(T)
  BY <1>1, PartOfTable
<1>3. CASE T = {}
  BY <1>2, <1>3, FS_EmptySet, StateStoreAssumption
<1>4. CASE T # {}
  <2> DEFINE Ids == {r.id : r \in T}
  <2>1. Ids \in SUBSET Nat /\ Ids # {}
    BY <1>1, <1>4 DEF Table, Row
  <2>2. \E n \in Ids : \A m \in Ids : n <= m
    <3> HIDE DEF Ids
    <3> QED
      BY <2>1, LeastNat
  <2>3. PICK r \in T : \A s \in T : r.id <= s.id
    BY <2>2
  <2> DEFINE Later == {s \in R : s.id > r.id}
  <2>4. Cardinality(Later) < Max
    BY <2>3 DEF Trimmed
  <2>5. IsFiniteSet(Later) /\ Cardinality(Later) \in Nat
    <3>1. Later \in SUBSET R
      OBVIOUS
    <3>2. IsFiniteSet(Later)
      BY <3>1, FS_Subset DEF Table
    <3>3. QED
      BY <3>2, FS_CardinalityType
  <2>6. T \subseteq Later \cup {r}
    <3> SUFFICES ASSUME NEW s \in T, s # r PROVE s.id > r.id
      BY <1>1
    <3>1. s.id \in Nat /\ r.id \in Nat /\ s.id # r.id
      BY <1>1, <2>3 DEF Table, Row
    <3>2. QED
      BY <2>3, <3>1
  <2> HIDE DEF Later, T
  <2>7. IsFiniteSet(Later \cup {r}) /\ Cardinality(Later \cup {r}) <= Cardinality(Later) + 1
    <3>1. /\ IsFiniteSet(Later \cup {r})
          /\ Cardinality(Later \cup {r}) = IF r \in Later THEN Cardinality(Later) ELSE Cardinality(Later) + 1
      BY <2>5, FS_AddElement
    <3>2. QED
      BY <2>5, <3>1
  <2>8. Cardinality(T) <= Cardinality(Later \cup {r}) /\ Cardinality(T) \in Nat
    BY <2>6, <2>7, FS_Subset, FS_CardinalityType
  <2>9. Cardinality(Later \cup {r}) \in Nat
    BY <2>7, FS_CardinalityType
  <2>10. Cardinality(T) <= Max
    BY <2>4, <2>5, <2>7, <2>8, <2>9, StateStoreAssumption
  <2>11. QED
    BY <1>2, <2>10 DEF T
<1>5. QED
  BY <1>3, <1>4

\* What the key of a row maps to is the value of that row.
LEMMA InTableOfRow ==
    ASSUME Table(rows), NEW r \in rows
    PROVE  InTable(r.key) = r.value
<1>1. (CHOOSE s \in rows : s.key = r.key) = r
  BY DEF Table
<1>2. QED
  BY <1>1 DEF InTable, HasRow

LEMMA InTableType ==
    ASSUME Table(rows), NEW k \in Keys
    PROVE  /\ InTable(k) \in Values \cup {None}
           /\ HasRow(k) => InTable(k) \in Values
           /\ ~HasRow(k) => InTable(k) = None
<1>1. CASE HasRow(k)
  <2>1. PICK r \in rows : r.key = k
    BY <1>1 DEF HasRow
  <2>2. InTable(k) = r.value
    BY <2>1, InTableOfRow
  <2>3. r.value \in Values
    BY DEF Table, Row
  <2>4. QED
    BY <1>1, <2>2, <2>3
<1>2. CASE ~HasRow(k)
  BY <1>2 DEF InTable
<1>3. QED
  BY <1>1, <1>2

\* The row that a job inserts is there, before the trim and after it.
LEMMA InsertedTable ==
    ASSUME Table(rows), NEW j \in Jobs
    PROVE  /\ Table(Inserted(j))
           /\ ~HasRow(j.key) =>
                 LET new == [id |-> NewId, key |-> j.key, value |-> j.value]
                 IN  Inserted(j) = rows \cup {new} /\ new \in Trimmed(Inserted(j))
<1> DEFINE new == [id |-> NewId, key |-> j.key, value |-> j.value]
           rest == {r \in rows : r.key # j.key}
<1>1. NewId \in Nat /\ \A r \in rows : r.id < NewId
  BY NewIdIsNew
<1>2. new \in Row /\ new.id = NewId /\ new.key = j.key
  BY <1>1 DEF Row, Jobs
<1>3. Table(rest)
  BY PartOfTable
<1>4. Table(rest \cup {new})
  <2>1. IsFiniteSet(rest \cup {new})
    <3>1. IsFiniteSet(rest)
      BY <1>3 DEF Table
    <3> HIDE DEF rest, new
    <3>2. QED
      BY <3>1, FS_AddElement
  <2>2. \A r \in rest : r.id # NewId /\ r.id <= NewId /\ r.key # j.key
    BY <1>1 DEF Table, Row
  <2>3. \A r, s \in rest \cup {new} : r.id = s.id \/ r.key = s.key => r = s
    BY <1>2, <1>3, <2>2 DEF Table
  <2>4. \A r \in rest \cup {new} : r.id <= NewId
    BY <1>1, <1>2, <2>2
  <2>5. rest \cup {new} \subseteq Row
    BY <1>2, <1>3 DEF Table
  <2> HIDE DEF rest, new
  <2>6. QED
    BY <1>1, <2>1, <2>3, <2>4, <2>5 DEF Table
<1>5. Table(Inserted(j))
  BY <1>4 DEF Inserted
<1>6. ASSUME ~HasRow(j.key) PROVE Inserted(j) = rows \cup {new} /\ new \in Trimmed(Inserted(j))
  <2>1. rest = rows
    BY <1>6 DEF HasRow
  <2>2. Inserted(j) = rows \cup {new}
    BY <1>6, <2>1 DEF Inserted
  <2>3. {s \in rows \cup {new} : s.id > new.id} = {}
    BY <1>1, <1>2 DEF Table, Row
  <2>4. Cardinality({s \in rows \cup {new} : s.id > new.id}) < Max
    BY <2>3, FS_EmptySet, StateStoreAssumption
  <2>5. QED
    BY <2>2, <2>4 DEF Trimmed
<1>7. QED
  BY <1>5, <1>6

(***************************************************************************)
(* The types, and that the rows are a table.                               *)
(***************************************************************************)

\* The first start finds rows 1..n.
LEMMA MigratedTable == Init => Table(rows)
<1> SUFFICES ASSUME Init PROVE Table(rows)
  OBVIOUS
<1>1. PICK n \in 0..Migrated : \E keyOf \in [1..n -> Keys], value \in [1..n -> Values] :
          /\ \A i, j \in 1..n : keyOf[i] = keyOf[j] => i = j
          /\ rows = {[id |-> i, key |-> keyOf[i], value |-> value[i]] : i \in 1..n}
  BY DEF Init
<1>2. PICK keyOf \in [1..n -> Keys], value \in [1..n -> Values] :
          /\ \A i, j \in 1..n : keyOf[i] = keyOf[j] => i = j
          /\ rows = {[id |-> i, key |-> keyOf[i], value |-> value[i]] : i \in 1..n}
  BY <1>1
<1>3. n \in Nat
  BY StateStoreAssumption
<1> DEFINE f == [i \in 1..n |-> [id |-> i, key |-> keyOf[i], value |-> value[i]]]
<1>4. IsFiniteSet(rows)
  <2>1. IsFiniteSet(1..n)
    BY <1>3, FS_Interval
  <2>2. f \in Surjection(1..n, rows)
    BY <1>2 DEF Surjection
  <2> HIDE DEF f
  <2>3. QED
    BY <2>1, <2>2, FS_Surjection
<1>5. rows \subseteq Row /\ \A r \in rows : r.id <= n
  BY <1>2, <1>3 DEF Row
<1>6. \A r, s \in rows : r.id = s.id \/ r.key = s.key => r = s
  BY <1>2
<1>7. QED
  BY <1>3, <1>4, <1>5, <1>6 DEF Table

\* A call gives its job the next number.
LEMMA SubmitJob ==
    ASSUME TypeOK, NEW do \in {"save", "delete", "clear"}, NEW k \in Keys, NEW v \in Values,
           Submit(do, k, v)
    PROVE  /\ ops' \in 0..MaxOps /\ jobs' \subseteq Jobs
           /\ jobs' = jobs \cup {[nr |-> ops + 1, do |-> do, key |-> k, value |-> v]}
<1>1. ops \in Nat /\ ops + 1 \in 1..MaxOps /\ ops + 1 \in 0..MaxOps
  BY StateStoreAssumption DEF TypeOK, Submit
<1>2. [nr |-> ops + 1, do |-> do, key |-> k, value |-> v] \in Jobs
  BY <1>1 DEF Jobs
<1>3. QED
  BY <1>1, <1>2 DEF Submit, TypeOK

\* What a start reads is of the right type.
LEMMA LoadedType == Table(rows) => Loaded \in [Keys -> Values \cup {None}]
BY InTableType DEF Loaded

TableInv == TypeOK /\ Table(rows)

LEMMA TableStep == TableInv /\ [Next]_vars => TableInv'
<1> SUFFICES ASSUME TypeOK, Table(rows), [Next]_vars PROVE TypeOK' /\ Table(rows)'
  BY DEF TableInv
<1>0. \A j \in jobs : j \in Jobs
  BY DEF TypeOK
<1>1. ASSUME NEW k \in Keys, NEW v \in Values, Save(k, v) PROVE TypeOK' /\ Table(rows)'
  <2>1. rows' = rows /\ kind' = kind /\ memory' = [memory EXCEPT ![k] = v] /\ raced' \in BOOLEAN
    BY <1>1 DEF Save, TypeOK
  <2>2. ops' \in 0..MaxOps /\ jobs' \subseteq Jobs
    BY <1>1, SubmitJob DEF Save
  <2>3. QED
    BY <2>1, <2>2 DEF TypeOK, Table
<1>2. ASSUME NEW k \in Keys, Pop(k) PROVE TypeOK' /\ Table(rows)'
  <2>1. rows' = rows /\ kind' = kind /\ memory' = [memory EXCEPT ![k] = None] /\ raced' \in BOOLEAN
    BY <1>2 DEF Pop, TypeOK
  <2>2. memory[k] \in Values
    BY <1>2 DEF Pop, TypeOK
  <2>3. ops' \in 0..MaxOps /\ jobs' \subseteq Jobs
    BY <1>2, <2>2, SubmitJob DEF Pop
  <2>4. QED
    BY <2>1, <2>3 DEF TypeOK, Table
<1>3. CASE Clear
  <2>1. rows' = rows /\ kind' = kind /\ memory' = [k \in Keys |-> None] /\ raced' \in BOOLEAN
    BY <1>3 DEF Clear, TypeOK
  <2>2. ops' \in 0..MaxOps /\ jobs' \subseteq Jobs
    BY <1>3, SubmitJob DEF Clear
  <2>3. QED
    BY <2>1, <2>2 DEF TypeOK, Table
<1>4. ASSUME NEW j \in jobs, RunSave(j) PROVE TypeOK' /\ Table(rows)'
  <2>1. Table(Inserted(j))
    BY <1>0, InsertedTable
  <2>2. Table(rows)'
    BY <1>4, <2>1, TrimmedIsSmall DEF RunSave, Table
  <2>3. memory' \in [Keys -> Values \cup {None}]
    BY <1>4 DEF RunSave, TypeOK
  <2>4. QED
    BY <1>4, <2>2, <2>3 DEF RunSave, Done, TypeOK, Table
<1>5. ASSUME NEW j \in jobs, RunDelete(j) PROVE TypeOK' /\ Table(rows)'
  <2>1. rows' \in SUBSET rows
    BY <1>5 DEF RunDelete
  <2>2. Table(rows')
    BY <2>1, PartOfTable
  <2>3. QED
    BY <1>5, <2>1, <2>2 DEF RunDelete, Done, TypeOK, Table
<1>6. ASSUME NEW j \in jobs, RunClear(j) PROVE TypeOK' /\ Table(rows)'
  <2>1. rows' \in SUBSET rows /\ raced' \in BOOLEAN
    BY <1>6 DEF RunClear, TypeOK
  <2>2. Table(rows')
    BY <2>1, PartOfTable
  <2>3. QED
    BY <1>6, <2>1, <2>2 DEF RunClear, Done, TypeOK, Table
<1>7. CASE Restart
  BY <1>7, LoadedType DEF Restart, TypeOK, Table
<1>8. CASE UNCHANGED vars
  BY <1>8 DEF vars, TypeOK, Table
<1>9. QED
  BY <1>1, <1>2, <1>3, <1>4, <1>5, <1>6, <1>7, <1>8 DEF Next

LEMMA TableInvariant == Spec => []TableInv
<1>1. Init => TableInv
  <2> SUFFICES ASSUME Init PROVE TableInv
    OBVIOUS
  <2>1. Table(rows)
    BY MigratedTable
  <2>2. memory \in [Keys -> Values \cup {None}]
    BY <2>1, LoadedType DEF Init
  <2>3. ops \in 0..MaxOps
    BY StateStoreAssumption DEF Init
  <2>4. QED
    BY <2>1, <2>2, <2>3 DEF Init, TypeOK, TableInv, Table
<1>2. QED
  BY <1>1, TableStep, PTL DEF Spec

\* The table has one row per key and rowid, and the memory a value or none per key, whatever
\* jobs have run in whatever order.
THEOREM TypeCorrect == Spec => []TypeOK
<1>1. TableInv => TypeOK
  BY DEF TableInv
<1>2. QED
  BY <1>1, TableInvariant, PTL

\* A table that grows does not pass its limit, for the trim is in the transaction that inserts.
THEOREM TableIsBounded == Spec => NeverGrowsPastMax
<1>1. TableInv /\ TableInv' /\ [Next]_vars
          => [Cardinality(rows') > Cardinality(rows) => Cardinality(rows') <= Max]_vars
  <2> SUFFICES ASSUME TypeOK, Table(rows), Table(rows'), [Next]_vars,
                      Cardinality(rows') > Cardinality(rows)
               PROVE  Cardinality(rows') <= Max
    BY DEF TableInv, Table
  <2>1. Cardinality(rows) \in Nat /\ Cardinality(rows') \in Nat
    BY FS_CardinalityType DEF Table
  <2>2. ~ (rows' \in SUBSET rows)
    <3> SUFFICES ASSUME rows' \in SUBSET rows PROVE FALSE
      OBVIOUS
    <3>1. Cardinality(rows') <= Cardinality(rows)
      BY FS_Subset DEF Table
    <3>2. QED
      BY <2>1, <3>1
  <2>3. PICK j \in jobs : RunSave(j)
    BY <2>2 DEF Next, Save, Pop, Clear, RunDelete, RunClear, Restart, vars
  <2>4. j \in Jobs
    BY DEF TypeOK
  <2>5. QED
    BY <2>3, <2>4, InsertedTable, TrimmedIsSmall DEF RunSave
<1>2. QED
  BY <1>1, TableInvariant, PTL DEF Spec, NeverGrowsPastMax

(***************************************************************************)
(* Memory and table.  While calls have not overlapped, a key has one       *)
(* pending job at most, which alone tells how its memory and its row       *)
(* differ.                                                                 *)
(***************************************************************************)

\* What a pending job still has to do to the table.
Outstanding(j) ==
    /\ j.do = "save" => memory[j.key] = j.value /\ ~HasRow(j.key)
    /\ j.do = "delete" => memory[j.key] = None
    /\ j.do = "clear" => \A k \in Keys : memory[k] = None

AgreeInv ==
    ~raced =>
        /\ \A i, j \in jobs : i.key = j.key \/ i.do = "clear" => i = j
        /\ \A k \in Keys : ~Pending(k) => memory[k] = InTable(k)
        /\ \A j \in jobs : Outstanding(j)

\* A run of a job changes what the table says of its own key and of the keys it trims, and
\* of those the memory forgets.
LEMMA SavedRow ==
    ASSUME TypeOK, Table(rows), Table(rows'), NEW j \in jobs, RunSave(j), ~HasRow(j.key)
    PROVE  /\ HasRow(j.key)' /\ InTable(j.key)' = j.value /\ memory'[j.key] = memory[j.key]
           /\ \A k \in Keys \ {j.key} :
                /\ HasRow(k)' => HasRow(k) /\ InTable(k)' = InTable(k) /\ memory'[k] = memory[k]
                /\ HasRow(k) /\ ~HasRow(k)' => memory'[k] = None
                /\ ~HasRow(k) => memory'[k] = memory[k]
<1> DEFINE new == [id |-> NewId, key |-> j.key, value |-> j.value]
<1>1. j \in Jobs /\ j.key \in Keys
  BY DEF TypeOK, Jobs
<1>2. Inserted(j) = rows \cup {new} /\ rows' = Trimmed(Inserted(j)) /\ new \in rows'
  BY <1>1, InsertedTable DEF RunSave
<1>3. rows' \subseteq rows \cup {new}
  BY <1>2 DEF Trimmed
<1>4. memory' = [k \in Keys |->
          IF \E r \in Inserted(j) \ rows' : r.key = k THEN None ELSE memory[k]]
  BY DEF RunSave
<1>5. \A r \in Inserted(j) \ rows' : r \in rows /\ r.key # j.key
  BY <1>2 DEF HasRow
<1>6. HasRow(j.key)' /\ InTable(j.key)' = j.value
  <2>1. \A r \in rows' : r.key = j.key => r = new
    BY <1>3 DEF HasRow
  <2>2. (CHOOSE r \in rows' : r.key = j.key) = new
    BY <1>2, <2>1
  <2>3. HasRow(j.key)'
    BY <1>2 DEF HasRow
  <2>4. InTable(j.key)' = (CHOOSE r \in rows' : r.key = j.key).value
    BY <2>3 DEF InTable, HasRow
  <2>5. new.value = j.value
    OBVIOUS
  <2> HIDE DEF new
  <2>6. QED
    BY <2>2, <2>3, <2>4, <2>5
<1>7. memory'[j.key] = memory[j.key]
  BY <1>1, <1>4, <1>5
<1>8. ASSUME NEW k \in Keys \ {j.key}, NEW r \in rows', r.key = k
      PROVE  r \in rows /\ InTable(k)' = InTable(k) /\ memory'[k] = memory[k]
  <2>1. r \in rows
    BY <1>3, <1>8
  <2>2. InTable(k) = r.value
    BY <1>8, <2>1, InTableOfRow
  <2>3. (CHOOSE s \in rows' : s.key = k) = r
    BY <1>8 DEF Table
  <2>4. InTable(k)' = r.value
    BY <1>8, <2>3 DEF InTable, HasRow
  <2>5. ~ \E s \in Inserted(j) \ rows' : s.key = k
    BY <1>5, <1>8, <2>1 DEF Table
  <2>6. QED
    BY <1>4, <2>1, <2>2, <2>4, <2>5
<1>9. ASSUME NEW k \in Keys \ {j.key}, HasRow(k), ~HasRow(k)' PROVE memory'[k] = None
  BY <1>2, <1>4, <1>9 DEF HasRow
<1>10. ASSUME NEW k \in Keys \ {j.key}, ~HasRow(k) PROVE memory'[k] = memory[k]
  BY <1>4, <1>5, <1>10 DEF HasRow
<1>11. QED
  BY <1>6, <1>7, <1>8, <1>9, <1>10 DEF HasRow

LEMMA AgreeStep == TableInv /\ TableInv' /\ AgreeInv /\ [Next]_vars => AgreeInv'
<1> SUFFICES ASSUME TypeOK, Table(rows), Table(rows'), AgreeInv, [Next]_vars, ~raced' PROVE AgreeInv'
  BY DEF TableInv, Table, AgreeInv
<1>0. ~raced
  BY DEF TypeOK, Next, Save, Pop, Clear, RunSave, RunDelete, RunClear, Restart, vars
<1>1. /\ \A i, j \in jobs : i.key = j.key \/ i.do = "clear" => i = j
      /\ \A k \in Keys : ~Pending(k) => memory[k] = InTable(k)
      /\ \A j \in jobs : Outstanding(j)
  BY <1>0 DEF AgreeInv
<1>2. \A j \in jobs : j \in Jobs /\ j.key \in Keys /\ j.do \in {"save", "delete", "clear"} /\ j.value \in Values
  BY DEF TypeOK, Jobs
<1>3. ASSUME NEW do \in {"save", "delete"}, NEW k \in Keys, NEW v \in Values, Submit(do, k, v),
             rows' = rows, ~Pending(k), do = "save" => memory'[k] = v /\ ~HasRow(k),
             do = "delete" => memory'[k] = None,
             \A l \in Keys \ {k} : memory'[l] = memory[l]
      PROVE  AgreeInv'
  <2>0. PICK new : new = [nr |-> ops + 1, do |-> do, key |-> k, value |-> v]
    OBVIOUS
  <2>1. jobs' = jobs \cup {new} /\ new.key = k /\ new.do = do /\ new.value = v
    BY <1>3, <2>0, SubmitJob
  <2>2. \A j \in jobs : j.key # k /\ j.do # "clear"
    BY <1>3 DEF Pending
  <2>3. \A i, j \in jobs' : i.key = j.key \/ i.do = "clear" => i = j
    BY <1>1, <2>1, <2>2
  <2>4. \A l \in Keys : InTable(l)' = InTable(l) /\ HasRow(l)' = HasRow(l)
    BY <1>3 DEF InTable, HasRow
  <2>5. ASSUME NEW l \in Keys, ~Pending(l)' PROVE memory'[l] = InTable(l)'
    <3>1. l # k /\ ~Pending(l)
      BY <2>1, <2>5 DEF Pending
    <3>2. QED
      BY <1>1, <1>3, <2>4, <3>1
  <2>6. ASSUME NEW j \in jobs PROVE Outstanding(j)'
    BY <1>1, <1>2, <1>3, <2>2, <2>4 DEF Outstanding
  <2>7. Outstanding(new)'
    BY <1>3, <2>1, <2>4 DEF Outstanding
  <2>8. QED
    BY <2>1, <2>3, <2>5, <2>6, <2>7 DEF AgreeInv
<1>4. ASSUME NEW k \in Keys, NEW v \in Values, Save(k, v) PROVE AgreeInv'
  <2>1. /\ Submit("save", k, v) /\ rows' = rows /\ ~Pending(k) /\ ~HasRow(k)
        /\ memory' = [memory EXCEPT ![k] = v]
    BY <1>4 DEF Save
  <2>2. memory'[k] = v /\ \A l \in Keys \ {k} : memory'[l] = memory[l]
    BY <2>1 DEF TypeOK
  <2>3. QED
    BY <1>3, <2>1, <2>2
<1>5. ASSUME NEW k \in Keys, Pop(k) PROVE AgreeInv'
  <2>1. /\ Submit("delete", k, memory[k]) /\ rows' = rows /\ ~Pending(k)
        /\ memory' = [memory EXCEPT ![k] = None] /\ memory[k] \in Values
    BY <1>5 DEF Pop, TypeOK
  <2>2. memory'[k] = None /\ \A l \in Keys \ {k} : memory'[l] = memory[l]
    BY <2>1 DEF TypeOK
  <2>3. QED
    BY <1>3, <2>1, <2>2
<1>6. CASE Clear
  <2>1. /\ memory' = [k \in Keys |-> None] /\ rows' = rows /\ jobs = {}
        /\ \E k \in Keys, v \in Values : Submit("clear", k, v)
    BY <1>6 DEF Clear
  <2>2. PICK k \in Keys, v \in Values : Submit("clear", k, v)
    BY <2>1
  <2>0. PICK new : new = [nr |-> ops + 1, do |-> "clear", key |-> k, value |-> v]
    OBVIOUS
  <2>3. jobs' = {new} /\ new.do = "clear"
    BY <2>0, <2>1, <2>2, SubmitJob
  <2>4. \A l \in Keys : Pending(l)' /\ memory'[l] = None
    BY <2>1, <2>3 DEF Pending
  <2>5. Outstanding(new)'
    BY <2>3, <2>4 DEF Outstanding
  <2>6. QED
    BY <2>3, <2>4, <2>5 DEF AgreeInv
<1>7. ASSUME NEW j \in jobs, jobs' = jobs \ {j}, j.do # "clear",
             \A k \in Keys \ {j.key} :
                /\ HasRow(k)' => HasRow(k) /\ InTable(k)' = InTable(k) /\ memory'[k] = memory[k]
                /\ HasRow(k) /\ ~HasRow(k)' => memory'[k] = None
                /\ ~HasRow(k) => memory'[k] = memory[k],
             memory'[j.key] = InTable(j.key)'
      PROVE  AgreeInv'
  <2>1. \A i \in jobs' : i \in jobs /\ i.key # j.key /\ i.do # "clear"
    BY <1>1, <1>7
  <2>2. \A k \in Keys : ~HasRow(k)' => InTable(k)' = None
    BY DEF InTable
  <2>3. \A k \in Keys : ~HasRow(k) => InTable(k) = None
    BY DEF InTable
  <2>4. ASSUME NEW k \in Keys, ~Pending(k)' PROVE memory'[k] = InTable(k)'
    <3>1. CASE k = j.key
      BY <1>7, <3>1
    <3>2. CASE k # j.key
      <4>1. ~Pending(k)
        BY <1>1, <1>7, <2>4, <3>2 DEF Pending
      <4>2. memory[k] = InTable(k)
        BY <1>1, <4>1
      <4>3. QED
        BY <1>7, <2>2, <2>3, <3>2, <4>2
    <3>3. QED
      BY <3>1, <3>2
  <2>5. ASSUME NEW i \in jobs' PROVE Outstanding(i)'
    <3>1. i \in jobs /\ i.key \in Keys \ {j.key} /\ i.do # "clear" /\ Outstanding(i)
      BY <1>1, <1>2, <2>1
    <3>2. QED
      BY <1>7, <3>1 DEF Outstanding
  <2>6. QED
    BY <1>1, <2>1, <2>4, <2>5 DEF AgreeInv
<1>8. ASSUME NEW j \in jobs, RunSave(j) PROVE AgreeInv'
  <2>1. /\ j.do = "save" /\ jobs' = jobs \ {j} /\ ~HasRow(j.key) /\ memory[j.key] = j.value
    BY <1>1, <1>8 DEF RunSave, Done, Outstanding
  <2>2. /\ InTable(j.key)' = j.value /\ memory'[j.key] = memory[j.key]
        /\ \A k \in Keys \ {j.key} :
                /\ HasRow(k)' => HasRow(k) /\ InTable(k)' = InTable(k) /\ memory'[k] = memory[k]
                /\ HasRow(k) /\ ~HasRow(k)' => memory'[k] = None
                /\ ~HasRow(k) => memory'[k] = memory[k]
    BY <1>8, <2>1, SavedRow
  <2>3. QED
    BY <1>7, <2>1, <2>2
<1>9. ASSUME NEW j \in jobs, RunDelete(j) PROVE AgreeInv'
  <2>1. /\ j.do = "delete" /\ jobs' = jobs \ {j} /\ memory' = memory /\ memory[j.key] = None
        /\ rows' = {r \in rows : r.key # j.key}
    BY <1>1, <1>9 DEF RunDelete, Done, Outstanding
  <2>2. \A k \in Keys \ {j.key} : HasRow(k)' <=> HasRow(k)
    BY <2>1 DEF HasRow
  <2>3. ASSUME NEW k \in Keys \ {j.key}, HasRow(k) PROVE InTable(k)' = InTable(k)
    <3>1. PICK r \in rows : r.key = k
      BY <2>3 DEF HasRow
    <3>2. r \in rows' /\ InTable(k) = r.value
      BY <2>1, <3>1, InTableOfRow
    <3>3. (CHOOSE s \in rows' : s.key = k) = r
      BY <3>1, <3>2 DEF Table
    <3>4. QED
      BY <2>2, <2>3, <3>2, <3>3 DEF InTable
  <2>4. InTable(j.key)' = None
    BY <2>1 DEF InTable, HasRow
  <2>5. QED
    BY <1>7, <2>1, <2>2, <2>3, <2>4
<1>10. ASSUME NEW j \in jobs, RunClear(j) PROVE AgreeInv'
  <2>1. j.do = "clear" /\ jobs' = jobs \ {j} /\ memory' = memory /\ rows' = {}
    BY <1>10 DEF RunClear, Done
  <2>2. jobs' = {}
    BY <1>1, <2>1
  <2>3. \A k \in Keys : memory'[k] = None /\ InTable(k)' = None
    BY <1>1, <2>1 DEF Outstanding, InTable, HasRow
  <2>4. QED
    BY <2>2, <2>3 DEF AgreeInv
<1>11. CASE Restart
  <2>1. jobs' = {} /\ rows' = rows /\ memory' = Loaded
    BY <1>11 DEF Restart
  <2>2. \A k \in Keys : memory'[k] = InTable(k)'
    BY <2>1 DEF Loaded, InTable, HasRow
  <2>3. QED
    BY <2>1, <2>2 DEF AgreeInv
<1>12. CASE UNCHANGED vars
  BY <1>1, <1>12 DEF vars, AgreeInv, Pending, InTable, HasRow, Outstanding
<1>13. QED
  BY <1>4, <1>5, <1>6, <1>8, <1>9, <1>10, <1>11, <1>12 DEF Next

LEMMA AgreeInvariant == Spec => []AgreeInv
<1>1. Init => AgreeInv
  BY DEF Init, AgreeInv, Loaded
<1>2. QED
  BY <1>1, AgreeStep, TableInvariant, PTL DEF Spec

\* When nothing is pending a restart finds in the table what the memory has, if no calls have
\* overlapped: the trim takes the same keys from both.
THEOREM MemoryAndTableAgree == Spec => []QuietAgreement
<1>1. TableInv /\ AgreeInv => QuietAgreement
  <2> SUFFICES ASSUME TypeOK, AgreeInv, jobs = {}, ~raced PROVE memory = Loaded
    BY DEF QuietAgreement, TableInv
  <2>1. \A k \in Keys : memory[k] = InTable(k)
    BY DEF AgreeInv, Pending
  <2>2. QED
    BY <2>1 DEF TypeOK, Loaded
<1>2. QED
  BY <1>1, TableInvariant, AgreeInvariant, PTL

\* What the memory has is in the table or about to be, so that its size is bounded too.
THEOREM MemoryHasRows == Spec => []MemoryIsBacked
<1>1. TableInv /\ AgreeInv => MemoryIsBacked
  <2> SUFFICES ASSUME TypeOK, AgreeInv, ~raced, NEW k \in Keys, memory[k] # None, memory[k] # InTable(k)
               PROVE  \E j \in jobs : j.do = "save" /\ j.key = k
    BY DEF MemoryIsBacked, TableInv
  <2>1. PICK j \in jobs : j.key = k \/ j.do = "clear"
    BY DEF AgreeInv, Pending
  <2>2. Outstanding(j)
    BY DEF AgreeInv
  <2>3. j.do \in {"save", "delete", "clear"}
    BY DEF TypeOK, Jobs
  <2>4. QED
    BY <2>1, <2>2, <2>3 DEF Outstanding
<1>2. QED
  BY <1>1, TableInvariant, AgreeInvariant, PTL

(***************************************************************************)
(* Part 4: the opening of the message store.                               *)
(***************************************************************************)

\* A file is encrypted with a salt that is there, and what is about to be encrypted, a new file
\* or the copy of a migration, will be.
KeyInv ==
    /\ db.kind = "enc" /\ ~short => db.key = salt /\ salt # 0
    /\ bak.kind # "enc"
    /\ pc \in {"look"} \cup Migrating /\ ~short => key = salt /\ salt # 0

\* Where the file at the path is the encrypted one.
Encrypted == {"copy", "verify", "schema", "index", "build", "triggers", "open"}

\* A migration begins with no backup and no torn one before it, with the log beside the database
\* or beside the backup: its rows are in the backup and, once that is renamed, in the log beside.
WhereInv ==
    /\ db.kind = "plain" => torn = {} /\ bak.rows = {} /\ pc \notin Migrating
    /\ torn # {} => pc \notin Migrating
    /\ pc \in Migrating => bak.kind = "plain"
    /\ pc \in Encrypted => db.kind = "enc"
    /\ db.kind = "none" => db.rows = {}
    /\ db.kind # "plain" /\ pc # "renamed" /\ "renamed" \notin torn => wal = {}
    /\ pc \in {"renamed", "read", "create"} => db.rows = {}
    /\ pc = "moved" => db.kind = "plain" /\ wal = {}
    /\ wal = {} \/ blog = {}
    /\ pc = "renamed" => committed \subseteq bak.rows \cup wal \cup blog
    /\ pc \in Migrating \ {"renamed"} => committed \subseteq bak.rows \cup blog
    /\ pc \in {"copy", "verify"} => db.rows \subseteq wanted
    /\ WholeUnlessTorn
    /\ NothingDestroyed

\* The index that a start takes for complete was built, and kept by triggers since.
IndexInv ==
    /\ db.fts /\ ~gap /\ pc # "build" => db.index = db.rows
    /\ available => db.fts /\ pc \notin {"salt", "look"} \cup Migrating
    /\ db.fts => db.kind = "enc" /\ pc \notin Migrating
    /\ ~bak.fts
    /\ pc = "build" => db.fts
    /\ pc \in Encrypted => db.kind = "enc"

-----------------------------------------------------------------------------

LEMMA FileShape ==
    /\ Absent \in File
    /\ key \in Nat => Created \in File
BY DEF Absent, Created, File

\* A step that may raise.
LEMMA FaultInBounds ==
    ASSUME faults \in 0..MaxFaults, Fault \/ UNCHANGED faults
    PROVE  faults' \in 0..MaxFaults
BY OpeningAssumption DEF Fault

LEMMA OldRowsAreRows == 1..OldRows \subseteq Rows /\ IsFiniteSet(Rows)
<1>1. OldRows \in Nat /\ NewRows \in Nat /\ OldRows + NewRows \in Nat
  BY OpeningAssumption
<1>2. 1..OldRows \subseteq Rows
  BY <1>1 DEF Rows
<1>3. IsFiniteSet(1..(OldRows + NewRows))
  BY <1>1, FS_Interval
<1>4. QED
  BY <1>2, <1>3 DEF Rows

LEMMA InitTyped == OpeningInit => OpeningTypeOK
<1> SUFFICES ASSUME OpeningInit PROVE OpeningTypeOK
  OBVIOUS
<1>1. wal \subseteq 1..OldRows /\ committed \subseteq 1..OldRows
  BY DEF OpeningInit
<1>2. crashes \in 0..MaxCrashes /\ faults \in 0..MaxFaults
  <2>1. crashes = 0 /\ faults = 0
    BY DEF OpeningInit
  <2>2. QED
    BY <2>1, OpeningAssumption
<1>3. bak \in File /\ salt \in Nat
  <2>1. bak = Absent /\ salt \in {0, 1}
    BY DEF OpeningInit
  <2>2. QED
    BY <2>1, FileShape
<1>4. db \in File
  <2>1. CASE db = Absent
    BY <2>1, FileShape
  <2>2. CASE \E cols \in SUBSET Columns :
               db = [Absent EXCEPT !.kind = "enc", !.rows = 1..OldRows, !.cols = cols, !.key = 1]
    <3>1. PICK cols \in SUBSET Columns :
            db = [Absent EXCEPT !.kind = "enc", !.rows = 1..OldRows, !.cols = cols, !.key = 1]
      BY <2>2
    <3>2. QED
      BY <3>1, OldRowsAreRows, FileShape DEF File
  <2>3. CASE \E cols \in SUBSET Columns, logged \in SUBSET (1..OldRows) :
               db = [Absent EXCEPT !.kind = "plain", !.rows = 1..OldRows \ logged, !.cols = cols]
    <3>1. PICK cols \in SUBSET Columns, logged \in SUBSET (1..OldRows) :
            db = [Absent EXCEPT !.kind = "plain", !.rows = 1..OldRows \ logged, !.cols = cols]
      BY <2>3
    <3>2. QED
      BY <3>1, OldRowsAreRows, FileShape DEF File
  <2>4. QED
    BY <2>1, <2>2, <2>3 DEF OpeningInit
<1>5. /\ pc \in Elsewhere /\ key \in Nat /\ blog \subseteq 1..OldRows /\ wanted \subseteq Rows
      /\ available \in BOOLEAN /\ short \in BOOLEAN /\ gap \in BOOLEAN /\ torn = {}
  BY DEF OpeningInit, Elsewhere
<1>6. QED
  BY <1>1, <1>2, <1>3, <1>4, <1>5, OldRowsAreRows DEF OpeningTypeOK

\* What there may be at first.
LEMMA InitFiles ==
    ASSUME OpeningInit
    PROVE  /\ bak = Absent /\ blog = {} /\ db.kind \in {"none", "plain", "enc"} /\ ~db.fts
           /\ db.kind = "none" => db.rows = {} /\ wal = {}
           /\ db.kind = "enc" => db.key = salt /\ salt # 0 /\ wal = {}
           /\ committed \subseteq db.rows \cup wal
<1> DEFINE EncOf(cols) ==
      [Absent EXCEPT !.kind = "enc", !.rows = 1..OldRows, !.cols = cols, !.key = 1]
<1> DEFINE PlainOf(cols, logged) ==
      [Absent EXCEPT !.kind = "plain", !.rows = 1..OldRows \ logged, !.cols = cols]
<1>1. bak = Absent /\ blog = {}
  BY DEF OpeningInit
<1>2. CASE db = Absent /\ wal = {} /\ committed = {}
  BY <1>1, <1>2 DEF Absent
<1>3. CASE (\E cols \in SUBSET Columns : db = EncOf(cols))
              /\ wal = {} /\ committed = 1..OldRows /\ salt = 1
  <2>1. db.kind = "enc" /\ db.rows = 1..OldRows /\ db.key = 1 /\ ~db.fts
    BY <1>3 DEF Absent
  <2>2. QED
    BY <1>1, <1>3, <2>1
<1>4. CASE \E cols \in SUBSET Columns, logged \in SUBSET (1..OldRows) :
              db = PlainOf(cols, logged) /\ wal = logged /\ committed = 1..OldRows
  <2>1. db.kind = "plain" /\ db.rows = 1..OldRows \ wal /\ committed = 1..OldRows /\ ~db.fts
    BY <1>4 DEF Absent
  <2>2. QED
    BY <1>1, <2>1
<1>5. QED
  BY <1>2, <1>3, <1>4 DEF OpeningInit

\* Every variable keeps its type.
THEOREM OpeningTypeCorrect == OpeningSpec => []OpeningTypeOK
<1>1. OpeningInit => OpeningTypeOK
  BY InitTyped
<1>2. OpeningTypeOK /\ [OpeningNext]_openingVars => OpeningTypeOK'
  <2> SUFFICES ASSUME OpeningTypeOK, [OpeningNext]_openingVars PROVE OpeningTypeOK'
    OBVIOUS
  <2> USE DEF OpeningTypeOK, Goto, Elsewhere, Migrating, salting, backup
  <2>0. Folded => bak' \in File /\ blog' = {}
    BY OldRowsAreRows DEF Folded, File
  <2>1. CASE Start
    BY <2>1 DEF Start
  <2>2. CASE Salt
    <3>1. NewSalt \in Nat
      BY DEF NewSalt, File
    <3>2. QED
      BY <2>2, <3>1, FaultInBounds DEF Salt
  <2>3. CASE OpenEncrypted
    BY <2>3, FileShape, FaultInBounds DEF OpenEncrypted
  <2>4. CASE RenameDb
    BY <2>4, FileShape, FaultInBounds DEF RenameDb
  <2>5. CASE RenameLog
    BY <2>5, FaultInBounds DEF RenameLog, RaisedIn
  <2>6. CASE ReadBackup
    <3>1. bak.rows \cup blog \subseteq Rows
      BY OldRowsAreRows DEF File
    <3>2. wanted' \subseteq Rows /\ torn' \subseteq Migrating \cup {"refused"}
      BY <2>6, <3>1 DEF ReadBackup, RaisedIn
    <3>3. QED
      BY <2>6, <3>2, FaultInBounds DEF ReadBackup, RaisedIn
  <2>7. CASE CreateTarget
    BY <2>7, FaultInBounds, FileShape DEF CreateTarget
  <2>8. CASE CopyBatch
    <3>1. db' \in File
      <4>1. Batch \subseteq Rows
        BY DEF Batch
      <4>2. QED
        BY <2>8, <4>1 DEF CopyBatch, File
    <3>2. faults' \in 0..MaxFaults
      BY <2>8, OpeningAssumption DEF CopyBatch
    <3>3. QED
      BY <2>8, <3>1, <3>2 DEF CopyBatch
  <2>9. CASE CopyDone
    BY <2>0, <2>9 DEF CopyDone
  <2>10. CASE Verify
    BY <2>10, FaultInBounds DEF Verify
  <2>11. CASE RemoveTarget
    <3>1. bak' \in File /\ blog' \subseteq 1..OldRows
      BY <2>0, <2>11 DEF RemoveTarget
    <3>2. QED
      BY <2>11, <3>1, FileShape, FaultInBounds DEF RemoveTarget, RaisedIn
  <2>22. CASE MoveBack
    BY <2>22, FileShape, FaultInBounds DEF MoveBack, RaisedIn
  <2>23. CASE MoveLogBack
    BY <2>23, FaultInBounds DEF MoveLogBack
  <2>12. CASE AddColumn
    <3>1. db' \in File
      BY <2>12 DEF AddColumn, File
    <3>2. QED
      BY <2>12, <3>1, FaultInBounds DEF AddColumn
  <2>13. CASE SchemaDone
    BY <2>13 DEF SchemaDone
  <2>14. CASE CreateIndex
    <3>1. db' \in File
      BY <2>14 DEF CreateIndex, File
    <3>2. QED
      BY <2>14, <3>1, FaultInBounds DEF CreateIndex
  <2>15. CASE BuildIndex
    <3>1. db' \in File
      BY <2>15 DEF BuildIndex, File
    <3>2. QED
      BY <2>15, <3>1, FaultInBounds DEF BuildIndex
  <2>16. CASE CreateTriggers
    <3>1. db' \in File
      BY <2>16 DEF CreateTriggers, File
    <3>2. QED
      BY <2>16, <3>1, FaultInBounds DEF CreateTriggers
  <2>17. CASE SaveRow
    <3>1. PICK r \in Rows :
            /\ db' = [db EXCEPT !.rows = @ \cup {r},
                                !.index = IF db.triggers THEN @ \cup {r} ELSE @]
            /\ committed' = committed \cup {r}
      BY <2>17 DEF SaveRow
    <3>2. db' \in File
      BY <3>1 DEF File
    <3>3. gap' \in BOOLEAN
      BY <2>17 DEF SaveRow
    <3>4. QED
      BY <2>17, <3>1, <3>2, <3>3 DEF SaveRow
  <2>18. CASE Close
    BY <2>18 DEF Close
  <2>19. CASE Crash
    <3>1. crashes' \in 0..MaxCrashes
      BY <2>19, OpeningAssumption DEF Crash
    <3>2. gap' \in BOOLEAN /\ torn' \subseteq Migrating \cup {"refused"}
      BY <2>19 DEF Crash
    <3>3. QED
      BY <2>19, <3>1, <3>2 DEF Crash
  <2>20. CASE UNCHANGED openingVars
    BY <2>20 DEF openingVars
  <2>21. QED
    BY <2>1, <2>2, <2>3, <2>4, <2>5, <2>6, <2>7, <2>8, <2>9, <2>10, <2>11, <2>12, <2>13,
       <2>14, <2>15, <2>16, <2>17, <2>18, <2>19, <2>20, <2>22, <2>23 DEF OpeningNext
<1>3. QED
  BY <1>1, <1>2, PTL DEF OpeningSpec

-----------------------------------------------------------------------------
(* The salt and the key.                                                   *)

\* A save, or a column more, changes neither the kind of the file nor its key.
SameFile == db'.kind = db.kind /\ db'.key = db.key

LEMMA KeyInvHolds == OpeningSpec => []KeyInv
<1>1. OpeningInit => KeyInv
  <2> SUFFICES ASSUME OpeningInit PROVE KeyInv
    OBVIOUS
  <2>1. pc = "down"
    BY DEF OpeningInit
  <2>2. QED
    BY <2>1, InitFiles DEF KeyInv, Absent, Migrating
<1>2. OpeningTypeOK /\ KeyInv /\ [OpeningNext]_openingVars => KeyInv'
  <2> SUFFICES ASSUME OpeningTypeOK, KeyInv, [OpeningNext]_openingVars PROVE KeyInv'
    OBVIOUS
  <2> USE DEF KeyInv, Goto, Migrating, salting, backup
  <2>0. db \in File /\ bak \in File /\ salt \in Nat /\ key \in Nat
    BY DEF OpeningTypeOK
  <2>1. CASE Start
    BY <2>1 DEF Start
  <2>2. CASE Salt
    <3>1. NewSalt \in Nat \ {0}
      BY <2>0 DEF NewSalt, File
    <3>2. QED
      BY <2>0, <2>2, <3>1 DEF Salt
  <2>3. CASE OpenEncrypted \/ CreateTarget
    BY <2>3 DEF OpenEncrypted, CreateTarget, Created, Absent
  <2>4. CASE RenameDb
    BY <2>4 DEF RenameDb, Absent
  <2>5. CASE RenameLog \/ ReadBackup \/ Verify \/ MoveLogBack \/ SchemaDone \/ Close \/ Crash
    BY <2>5 DEF RenameLog, ReadBackup, RaisedIn, Verify, MoveLogBack, SchemaDone, Close, Crash
  <2>6. CASE CopyDone \/ RemoveTarget \/ MoveBack
    <3>1. Folded => bak'.kind = bak.kind
      BY <2>0 DEF Folded, File
    <3>2. QED
      BY <2>6, <3>1 DEF CopyDone, RemoveTarget, MoveBack, RaisedIn, Absent
  <2>7. CASE CopyBatch
    <3>1. SameFile
      BY <2>0, <2>7 DEF SameFile, CopyBatch, File
    <3>2. QED
      BY <2>7, <3>1 DEF SameFile, CopyBatch
  <2>8. CASE AddColumn \/ CreateIndex \/ BuildIndex \/ CreateTriggers \/ SaveRow
    <3>1. SameFile
      BY <2>0, <2>8 DEF SameFile, AddColumn, CreateIndex, BuildIndex, CreateTriggers, SaveRow, File
    <3>2. UNCHANGED <<salting, bak>> /\ pc' \in {pc, "index", "build", "triggers", "open"}
      BY <2>8 DEF AddColumn, CreateIndex, BuildIndex, CreateTriggers, SaveRow
    <3>3. QED
      BY <3>1, <3>2 DEF SameFile
  <2>9. CASE UNCHANGED openingVars
    BY <2>9 DEF openingVars
  <2>10. QED
    BY <2>1, <2>2, <2>3, <2>4, <2>5, <2>6, <2>7, <2>8, <2>9 DEF OpeningNext
<1>3. QED
  BY <1>1, <1>2, OpeningTypeCorrect, PTL DEF OpeningSpec

\* Over any number of starts that end or raise at any step, the salt that an encrypted database
\* was made with is the one in the salt file, and the database can be opened with the same
\* passphrase: only a salt of which a part was written is ever made anew over it.
THEOREM AlwaysReadable == OpeningSpec => []Readable
<1>1. KeyInv => Readable
  BY DEF KeyInv, Readable
<1>2. QED
  BY <1>1, KeyInvHolds, PTL

-----------------------------------------------------------------------------
(* The rows.                                                               *)

\* What a copy with as many rows as the migration read.
LEMMA CountedIsWhole ==
    ASSUME OpeningTypeOK, db.rows \subseteq wanted, Cardinality(db.rows) = Cardinality(wanted)
    PROVE  db.rows = wanted
<1>1. wanted \in SUBSET Rows
  BY DEF OpeningTypeOK
<1>2. IsFiniteSet(wanted)
  BY <1>1, OldRowsAreRows, FS_Subset
<1>3. db.rows \in SUBSET wanted
  OBVIOUS
<1>4. QED
  BY <1>2, <1>3, FS_Subset

LEMMA WhereInvHolds == OpeningSpec => []WhereInv
<1>1. OpeningInit => WhereInv
  <2> SUFFICES ASSUME OpeningInit PROVE WhereInv
    OBVIOUS
  <2>1. pc = "down" /\ torn = {}
    BY DEF OpeningInit
  <2>2. QED
    BY <2>1, InitFiles
       DEF WhereInv, WholeUnlessTorn, NothingDestroyed, Migrating, Encrypted, Absent
<1>2. OpeningTypeOK /\ WhereInv /\ [OpeningNext]_openingVars => WhereInv'
  <2> SUFFICES ASSUME OpeningTypeOK, WhereInv, [OpeningNext]_openingVars PROVE WhereInv'
    OBVIOUS
  <2> USE DEF WhereInv, WholeUnlessTorn, NothingDestroyed, Goto, Migrating, Encrypted,
              salting, backup
  <2>0. db \in File /\ bak \in File
    BY DEF OpeningTypeOK
  <2>1. CASE Start \/ Salt \/ SchemaDone \/ Close
    BY <2>1 DEF Start, Salt, SchemaDone, Close
  <2>2. CASE OpenEncrypted
    <3>1. db.kind \in {"none", "plain", "enc"}
      BY <2>0 DEF File
    <3>2. CASE db.kind = "none"
      BY <2>2, <3>2 DEF OpenEncrypted, Created, Absent
    <3>3. CASE db.kind = "enc"
      BY <2>2, <3>3 DEF OpenEncrypted
    <3>4. QED
      BY <2>2, <3>1, <3>2, <3>3 DEF OpenEncrypted
  <2>3. CASE RenameDb
    BY <2>3 DEF RenameDb, Absent
  <2>4. CASE RenameLog
    BY <2>4 DEF RenameLog, RaisedIn
  <2>5. CASE ReadBackup
    BY <2>5 DEF ReadBackup, RaisedIn
  <2>6. CASE CreateTarget
    BY <2>6 DEF CreateTarget, Created, Absent
  <2>7. CASE CopyBatch
    <3>1. db'.kind = db.kind
      BY <2>0, <2>7 DEF CopyBatch, File
    <3>2. pc' = "copy" => db'.rows \subseteq wanted
      BY <2>0, <2>7 DEF CopyBatch, Batch, File
    <3>3. QED
      BY <2>7, <3>1, <3>2 DEF CopyBatch
  <2>17. Folded => bak'.kind = bak.kind /\ bak'.rows = bak.rows \cup blog /\ blog' = {}
    BY <2>0 DEF Folded, File
  <2>8. CASE CopyDone
    BY <2>8, <2>17 DEF CopyDone
  <2>9. CASE Verify
    <3>1. CASE Cardinality(db.rows) = Cardinality(wanted) /\ pc' = "schema"
      BY <2>9, <3>1, CountedIsWhole DEF Verify
    <3>2. CASE pc' = "revert"
      BY <2>9, <3>2 DEF Verify
    <3>3. QED
      BY <2>9, <3>1, <3>2 DEF Verify
  <2>10. CASE RemoveTarget
    <3>1. bak'.kind = bak.kind /\ bak'.rows \cup blog' = bak.rows \cup blog
      BY <2>10, <2>17 DEF RemoveTarget
    <3>2. wal = {}
      BY <2>10 DEF RemoveTarget
    <3>3. QED
      BY <2>10, <3>1, <3>2 DEF RemoveTarget, RaisedIn, Absent
  <2>11. CASE MoveBack
    BY <2>11 DEF MoveBack, RaisedIn, Absent
  <2>18. CASE MoveLogBack
    BY <2>18 DEF MoveLogBack
  <2>12. CASE AddColumn \/ CreateIndex \/ BuildIndex \/ CreateTriggers
    <3>1. db'.kind = db.kind /\ db'.rows = db.rows
      BY <2>0, <2>12 DEF AddColumn, CreateIndex, BuildIndex, CreateTriggers, File
    <3>2. /\ UNCHANGED <<wal, backup, committed, torn>>
          /\ db.kind = "enc" /\ pc \notin Migrating /\ pc' \notin Migrating \cup {"moved"}
      BY <2>12 DEF AddColumn, CreateIndex, BuildIndex, CreateTriggers
    <3>3. QED
      BY <3>1, <3>2
  <2>13. CASE SaveRow
    <3>1. PICK r \in Rows :
            /\ db' = [db EXCEPT !.rows = @ \cup {r},
                                !.index = IF db.triggers THEN @ \cup {r} ELSE @]
            /\ committed' = committed \cup {r}
      BY <2>13 DEF SaveRow
    <3>2. db'.kind = db.kind /\ db'.rows = db.rows \cup {r}
      BY <2>0, <3>1 DEF File
    <3>3. QED
      BY <2>13, <3>1, <3>2 DEF SaveRow
  <2>14. CASE Crash
    BY <2>14 DEF Crash
  <2>15. CASE UNCHANGED openingVars
    BY <2>15 DEF openingVars
  <2>16. QED
    BY <2>1, <2>2, <2>3, <2>4, <2>5, <2>6, <2>7, <2>8, <2>9, <2>10, <2>11, <2>12, <2>13,
       <2>14, <2>15, <2>18 DEF OpeningNext
<1>3. QED
  BY <1>1, <1>2, OpeningTypeCorrect, PTL DEF OpeningSpec

\* A migration that fails leaves the database whole, wherever in its try it raises, and so does
\* one that is reverted in part, once its database is back: of the sets that the migration
\* read, counted and copied, only those counts are compared.
THEOREM WholeAfterFailure == OpeningSpec => []WholeUnlessTorn
BY WhereInvHolds, PTL DEF WhereInv

\* A process that ends at any other point than between the renames leaves every row in a file.
THEOREM EveryRowSomewhere == OpeningSpec => []NothingDestroyed
BY WhereInvHolds, PTL DEF WhereInv

-----------------------------------------------------------------------------
(* The index.                                                              *)

LEMMA IndexInvHolds == OpeningSpec => []IndexInv
<1>1. OpeningInit => IndexInv
  <2> SUFFICES ASSUME OpeningInit PROVE IndexInv
    OBVIOUS
  <2>1. pc = "down" /\ ~available
    BY DEF OpeningInit
  <2>2. QED
    BY <2>1, InitFiles DEF IndexInv, Absent, Encrypted, Migrating
<1>2. OpeningTypeOK /\ WhereInv /\ IndexInv /\ [OpeningNext]_openingVars => IndexInv'
  <2> SUFFICES ASSUME OpeningTypeOK, WhereInv, IndexInv, [OpeningNext]_openingVars PROVE IndexInv'
    OBVIOUS
  <2> USE DEF IndexInv, Goto, Migrating, Encrypted, salting, backup
  <2>0. db \in File /\ bak \in File
    BY DEF OpeningTypeOK
  <2>1. CASE Start \/ Salt \/ SchemaDone \/ Close
    BY <2>1 DEF Start, Salt, SchemaDone, Close
  <2>2. CASE OpenEncrypted \/ CreateTarget
    <3>1. Created.kind = "enc" /\ ~Created.fts
      BY DEF Created, Absent
    <3>2. Created.index = Created.rows
      BY DEF Created, Absent
    <3>3. db.kind \in {"none", "plain", "enc"}
      BY <2>0 DEF File
    <3>4. /\ ~available /\ pc # "build" /\ UNCHANGED <<bak, available, gap>>
          /\ pc' \in {"schema", "raised", "copy", "revert"}
          /\ db' = Created \/ (UNCHANGED db /\ db.kind = "enc" /\ pc' \in {"schema", "raised"})
      BY <2>2, <3>3 DEF OpenEncrypted, CreateTarget
    <3>5. QED
      BY <3>1, <3>2, <3>4
  <2>15. Folded => bak'.fts = bak.fts
    BY <2>0 DEF Folded, File
  <2>3. CASE RenameDb \/ RemoveTarget \/ MoveBack
    BY <2>3, <2>15 DEF RenameDb, RemoveTarget, MoveBack, RaisedIn, Absent
  <2>4. CASE RenameLog \/ ReadBackup \/ MoveLogBack
    BY <2>4 DEF RenameLog, ReadBackup, RaisedIn, MoveLogBack
  <2>5. CASE CopyDone \/ Verify
    BY <2>5, <2>15 DEF CopyDone, Verify, WhereInv
  <2>6. CASE CopyBatch
    <3>1. db'.fts = db.fts /\ db'.kind = db.kind
      BY <2>0, <2>6 DEF CopyBatch, File
    <3>2. QED
      BY <2>6, <3>1 DEF CopyBatch
  <2>7. CASE AddColumn
    <3>1. db'.fts = db.fts /\ db'.kind = db.kind /\ db'.index = db.index /\ db'.rows = db.rows
      BY <2>0, <2>7 DEF AddColumn, File
    <3>2. QED
      BY <2>7, <3>1 DEF AddColumn
  <2>8. CASE CreateIndex
    <3>1. CASE ~db.fts /\ db' = [db EXCEPT !.fts = TRUE] /\ pc' = "build"
      <4>1. db'.fts /\ db'.kind = db.kind
        BY <2>0, <3>1 DEF File
      <4>2. QED
        BY <2>8, <3>1, <4>1 DEF CreateIndex
    <3>2. CASE UNCHANGED db /\ pc' # "build"
      BY <2>8, <3>2 DEF CreateIndex
    <3>3. QED
      BY <2>8, <3>1, <3>2 DEF CreateIndex
  <2>9. CASE BuildIndex
    <3>1. db'.fts = db.fts /\ db'.kind = db.kind /\ db'.rows = db.rows
      BY <2>0, <2>9 DEF BuildIndex, File
    <3>2. db'.index = db.rows \/ gap'
      BY <2>0, <2>9 DEF BuildIndex, File
    <3>3. QED
      BY <2>9, <3>1, <3>2 DEF BuildIndex
  <2>10. CASE CreateTriggers
    <3>1. db'.fts = db.fts /\ db'.kind = db.kind /\ db'.index = db.index /\ db'.rows = db.rows
      BY <2>0, <2>10 DEF CreateTriggers, File
    <3>2. QED
      BY <2>10, <3>1 DEF CreateTriggers
  <2>11. CASE SaveRow
    <3>1. PICK r \in Rows :
            db' = [db EXCEPT !.rows = @ \cup {r},
                             !.index = IF db.triggers THEN @ \cup {r} ELSE @]
      BY <2>11 DEF SaveRow
    <3>2. db'.fts = db.fts /\ db'.kind = db.kind /\ db'.rows = db.rows \cup {r}
      BY <2>0, <3>1 DEF File
    <3>3. ~gap' => ~gap /\ db'.index = db.index \cup {r}
      BY <2>0, <2>11, <3>1 DEF SaveRow, File
    <3>4. UNCHANGED <<pc, bak, available>> /\ pc = "open"
      BY <2>11 DEF SaveRow
    <3>5. QED
      BY <3>2, <3>3, <3>4
  <2>12. CASE Crash
    BY <2>12 DEF Crash
  <2>13. CASE UNCHANGED openingVars
    BY <2>13 DEF openingVars
  <2>14. QED
    BY <2>1, <2>2, <2>3, <2>4, <2>5, <2>6, <2>7, <2>8, <2>9, <2>10, <2>11, <2>12, <2>13 DEF OpeningNext
<1>3. QED
  BY <1>1, <1>2, OpeningTypeCorrect, WhereInvHolds, PTL DEF OpeningSpec

\* A search through the index misses no row, unless the process ended between the creation of
\* the index and its building, or rows were saved while its triggers were missing.
THEOREM SearchFindsAll == OpeningSpec => []IndexComplete
<1>1. IndexInv => IndexComplete
  BY DEF IndexInv, IndexComplete
<1>2. QED
  BY <1>1, IndexInvHolds, PTL

=============================================================================
