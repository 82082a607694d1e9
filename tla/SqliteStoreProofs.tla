-------------------------- MODULE SqliteStoreProofs --------------------------
(***************************************************************************)
(* Proofs about SqliteStore for both databases, every set of transactions  *)
(* and of snapshot names, any number of blocks, of requests and of calls   *)
(* in the middle of which the process is killed.                           *)
(***************************************************************************)
EXTENDS SqliteStore, SequenceTheorems, FiniteSetTheorems, TLAPS

\* The column height of a row of block b: Redis has no such column.
RowHeight(h) == IF backend = "redis" THEN 0 ELSE h

\* The rows that name the latest block, and those that hold the blocks.
GlobalRows(d) ==
    /\ \A r \in d["global"] : r.key = "latest" /\ r.version = 0 /\ r.height = 0 /\ r.value \in Nat
    /\ \A r, s \in d["global"] : r.value = s.value

BlockRows(d) ==
    /\ \A r \in d["blocks"] :
         /\ r.value \in Blocks /\ r.key = r.value.height
         /\ r.version = 0 /\ r.height = RowHeight(r.key)
    /\ \A r, s \in d["blocks"] : r.key = s.key => r.value = s.value

FileOK(d) == DOMAIN d = Tables /\ GlobalRows(d) /\ BlockRows(d)

Names(d, h) == \E r \in d["global"] : r.value = h
HasHeight(d, h) == \E r \in d["blocks"] : r.key = h
Holds(d, b) == \E r \in d["blocks"] : r.value = b

\* The block that the latest height names is there.
LatestHeld(d) == \A r \in d["global"] : HasHeight(d, r.value)

\* What the running call still writes of these rows.
StatementOK(s) ==
    /\ s.table \in Tables
    /\ s.table = "blocks" => /\ phase = "commit" /\ s.version = 0
                             /\ s.value = head /\ s.key = head.height
    /\ s.table = "global" => s.key = "latest" /\ s.version = 0 /\ s.value = currentHeight

TodoOK ==
    /\ \E X : todo \in Seq(X)
    /\ \A i \in 1..Len(todo) : StatementOK(todo[i])
    /\ phase = "commit" => /\ currentHeight = head.height
                           /\ Holds(db, head) \/ todo[1].table = "blocks"
    /\ phase = "rollback" => Len(todo) = 1 /\ todo[1].table = "global"

\* While no rollback was cut short or went above the chain: every file that has a
\* chain names a block that it holds, a snapshot has a chain, and so has the open
\* file once the blockchain was loaded from it, and any snapshot that is open.
ChainsOK ==
    /\ \A f \in Files : (f = active /\ phase = "rollback") \/ LatestHeld(files[f])
    /\ \A n \in SnapshotNames : files[n] # NoRows => files[n]["global"] # {}
    /\ active \in SnapshotNames \/ phase \in {"reload", "ready", "rollback"} => db["global"] # {}
    /\ phase = "rollback" => HasHeight(db, currentHeight)
    /\ phase = "ready" => Holds(db, head) /\ Names(db, head.height)
    /\ phase = "commit" => \/ Names(db, head.height)
                           \/ \E i \in 1..Len(todo) : todo[i].table = "global"

StoreInv ==
    /\ TypeOK /\ backend \in {"sqlite", "redis"}
    /\ \A f \in Files : FileOK(files[f])
    /\ TodoOK
    /\ "rollback" \notin torn => ChainsOK

-----------------------------------------------------------------------------
(* What the queries return                                                 *)

LEMMA LatestOfFile ==
  ASSUME NEW d, FileOK(d)
  PROVE  /\ (LatestRows(d) = {}) <=> (d["global"] = {})
         /\ \A h : Names(d, h) => LatestRows(d) = {h} /\ LatestBlockHeight(d) = h
  <1> DEFINE found == {r \in d["global"] : r.key = "latest" /\ r.version <= 0}
             last == {x \in found : \A y \in found : y.version <= x.version}
  <1>1. LatestRows(d) = {r.value : r \in last}
    BY DEF LatestRows, Get
  <1>2. last = d["global"]
    BY DEF FileOK, GlobalRows
  <1> HIDE DEF found, last
  <1>3. (LatestRows(d) = {}) <=> (d["global"] = {})
    BY <1>1, <1>2
  <1>4. ASSUME NEW h, Names(d, h) PROVE LatestRows(d) = {h}
    BY <1>1, <1>2, <1>4 DEF FileOK, GlobalRows, Names
  <1>5. ASSUME NEW h, LatestRows(d) = {h} PROVE LatestBlockHeight(d) = h
    BY <1>5 DEF LatestBlockHeight
  <1> QED BY <1>3, <1>4, <1>5

LEMMA BlocksOfFile ==
  ASSUME NEW d, FileOK(d), NEW h
  PROVE  /\ (Get(d, "blocks", h, 0) = {}) <=> ~HasHeight(d, h)
         /\ \A b \in Get(d, "blocks", h, 0) : b \in Blocks /\ b.height = h /\ Holds(d, b)
         /\ \A b : Holds(d, b) /\ b.height = h => Get(d, "blocks", h, 0) = {b}
  <1> DEFINE found == {r \in d["blocks"] : r.key = h /\ r.version <= 0}
             last == {x \in found : \A y \in found : y.version <= x.version}
  <1>1. Get(d, "blocks", h, 0) = {r.value : r \in last}
    BY DEF Get
  <1>2. \A r : r \in last <=> r \in d["blocks"] /\ r.key = h
    BY DEF FileOK, BlockRows
  <1> HIDE DEF found, last
  <1>3. (Get(d, "blocks", h, 0) = {}) <=> ~HasHeight(d, h)
    BY <1>1, <1>2 DEF HasHeight
  <1>4. \A b \in Get(d, "blocks", h, 0) : b \in Blocks /\ b.height = h /\ Holds(d, b)
    BY <1>1, <1>2 DEF Holds, FileOK, BlockRows
  <1>5. ASSUME NEW b, Holds(d, b), b.height = h PROVE Get(d, "blocks", h, 0) = {b}
    <2>1. PICK r \in d["blocks"] : r.value = b
      BY <1>5 DEF Holds
    <2>2. r \in last
      BY <1>2, <1>5, <2>1 DEF FileOK, BlockRows
    <2>3. \A x \in last : x.value = b
      BY <1>2, <2>1, <2>2 DEF FileOK, BlockRows
    <2> QED BY <1>1, <2>1, <2>2, <2>3
  <1> QED BY <1>3, <1>4, <1>5

\* The latest block of a file that names one and holds it.
LEMMA LatestBlockOfFile ==
  ASSUME NEW d, FileOK(d)
  PROVE  /\ \A b : Holds(d, b) /\ Names(d, b.height) => LatestBlocks(d) = {b}
         /\ d["global"] # {} /\ LatestHeld(d) => LatestBlocks(d) # {}
         /\ \A b \in LatestBlocks(d) : b \in Blocks /\ Holds(d, b) /\ Names(d, b.height)
         /\ d["global"] = {} => LatestBlocks(d) = {}
  <1>1. ASSUME NEW b, Holds(d, b), Names(d, b.height) PROVE LatestBlocks(d) = {b}
    BY <1>1, LatestOfFile, BlocksOfFile DEF LatestBlocks
  <1>2. ASSUME NEW r \in d["global"]
        PROVE  LatestBlocks(d) = Get(d, "blocks", r.value, 0)
    <2>1. Names(d, r.value)
      BY DEF Names
    <2> QED BY <2>1, LatestOfFile DEF LatestBlocks
  <1>3. ASSUME d["global"] # {}, LatestHeld(d) PROVE LatestBlocks(d) # {}
    <2>1. PICK r \in d["global"] : HasHeight(d, r.value)
      BY <1>3 DEF LatestHeld
    <2> QED BY <1>2, <2>1, BlocksOfFile
  <1>4. ASSUME d["global"] = {} PROVE LatestBlocks(d) = {}
    BY <1>4, LatestOfFile DEF LatestBlocks
  <1>5. ASSUME NEW b \in LatestBlocks(d) PROVE b \in Blocks /\ Holds(d, b) /\ Names(d, b.height)
    <2>1. PICK r \in d["global"] : TRUE
      BY <1>4, <1>5
    <2>2. b \in Get(d, "blocks", r.value, 0)
      BY <1>2, <1>5, <2>1
    <2>3. b \in Blocks /\ b.height = r.value /\ Holds(d, b)
      BY <2>2, BlocksOfFile
    <2> QED BY <2>1, <2>3 DEF Names
  <1> QED BY <1>1, <1>3, <1>4, <1>5

-----------------------------------------------------------------------------
(* What a statement does to a file                                         *)

\* The row that a statement writes, and the rows that it replaces.
RowOf(s, height) ==
    [key |-> s.key, version |-> s.version,
     height |-> IF s.table = "global" THEN 0 ELSE RowHeight(height), value |-> s.value]

Replaces(r, s, height) ==
    /\ r.key = s.key
    /\ IF backend = "redis" THEN s.table # "ledger" \/ r.value = s.value
       ELSE r.version = s.version /\ r.height = RowOf(s, height).height

LEMMA WriteOfStatement ==
  ASSUME NEW d, DOMAIN d = Tables, NEW s, s.table \in Tables, NEW height
  PROVE  /\ DOMAIN Write(d, s, height) = Tables
         /\ \A t \in Tables : t # s.table => Write(d, s, height)[t] = d[t]
         /\ \A r : r \in Write(d, s, height)[s.table]
                     <=> (r \in d[s.table] /\ ~Replaces(r, s, height)) \/ r = RowOf(s, height)
  <1>1. CASE backend = "redis"
    <2> DEFINE others == {r \in d[s.table] : r.key # s.key \/ (s.table = "ledger" /\ r.value # s.value)}
               row == [key |-> s.key, version |-> s.version, height |-> 0, value |-> s.value]
    <2>1. Write(d, s, height) = [d EXCEPT ![s.table] = others \cup {row}]
      BY <1>1 DEF Write, RedisSet
    <2>2. row = RowOf(s, height)
      BY <1>1 DEF RowOf, RowHeight
    <2>3. \A r : r \in others <=> r \in d[s.table] /\ ~Replaces(r, s, height)
      BY <1>1 DEF Replaces
    <2> HIDE DEF others, row
    <2> QED BY <2>1, <2>2, <2>3
  <1>2. CASE backend # "redis"
    <2> DEFINE h == IF s.table = "global" THEN 0 ELSE height
               others == {r \in d[s.table] : ~(r.key = s.key /\ r.version = s.version /\ r.height = h)}
               row == [key |-> s.key, version |-> s.version, height |-> h, value |-> s.value]
    <2>1. Write(d, s, height) = [d EXCEPT ![s.table] = others \cup {row}]
      BY <1>2 DEF Write, Upsert
    <2>2. row = RowOf(s, height) /\ RowOf(s, height).height = h
      BY <1>2 DEF RowOf, RowHeight
    <2>3. \A r : r \in others <=> r \in d[s.table] /\ ~Replaces(r, s, height)
      BY <1>2, <2>2 DEF Replaces
    <2> HIDE DEF others, row
    <2> QED BY <2>1, <2>2, <2>3
  <1> QED BY <1>1, <1>2

\* A statement of the running call keeps the shape of the rows.  It only adds to the
\* heights that have a block, and it does what it is for.
LEMMA WriteKeepsFile ==
  ASSUME NEW d, FileOK(d), NEW s, StatementOK(s), currentHeight \in Nat, head \in Blocks,
         backend \in {"sqlite", "redis"}, phase = "commit" => currentHeight = head.height
  PROVE  LET e == Write(d, s, currentHeight)
         IN  /\ FileOK(e)
             /\ s.table # "global" => e["global"] = d["global"]
             /\ s.table = "global" => Names(e, currentHeight) /\ \A r \in e["global"] : r.value = currentHeight
             /\ s.table # "blocks" => e["blocks"] = d["blocks"]
             /\ s.table = "blocks" => Holds(e, head)
             /\ \A h : HasHeight(d, h) => HasHeight(e, h)
  <1> DEFINE e == Write(d, s, currentHeight)
             row == RowOf(s, currentHeight)
  <1>1. /\ DOMAIN e = Tables
        /\ \A t \in Tables : t # s.table => e[t] = d[t]
        /\ \A r : r \in e[s.table]
                    <=> (r \in d[s.table] /\ ~Replaces(r, s, currentHeight)) \/ r = row
    BY WriteOfStatement DEF FileOK, StatementOK
  <1>2. /\ row.key = s.key /\ row.version = s.version /\ row.value = s.value
        /\ row.height = IF s.table = "global" THEN 0 ELSE RowHeight(currentHeight)
    BY DEF RowOf
  <1>3. {"global", "blocks"} \subseteq Tables
    BY DEF Tables
  <1> HIDE DEF e, row
  <1>4. CASE s.table = "global"
    <2>1. e["blocks"] = d["blocks"]
      BY <1>1, <1>3, <1>4
    <2>2. \A r \in d["global"] : Replaces(r, s, currentHeight)
      BY <1>2, <1>4 DEF FileOK, GlobalRows, Replaces, StatementOK, row
    <2>3. \A r : r \in e["global"] <=> r = row
      BY <1>1, <1>4, <2>2
    <2>4. GlobalRows(e)
      BY <1>2, <1>4, <2>3 DEF GlobalRows, StatementOK
    <2>5. BlockRows(e)
      BY <2>1 DEF FileOK, BlockRows
    <2> QED BY <1>1, <1>2, <1>4, <2>1, <2>3, <2>4, <2>5 DEF FileOK, Names, HasHeight, StatementOK, e
  <1>5. CASE s.table = "blocks"
    <2>1. e["global"] = d["global"]
      BY <1>1, <1>3, <1>5
    <2>2. /\ s.version = 0 /\ s.value = head /\ s.key = head.height /\ currentHeight = head.height
          /\ row.height = RowHeight(row.key) /\ head.height \in Nat
      BY <1>2, <1>5 DEF StatementOK, Blocks
    <2>3. \A r \in d["blocks"] : r.key = s.key => Replaces(r, s, currentHeight)
      BY <1>2, <1>5, <2>2 DEF FileOK, BlockRows, Replaces, RowHeight, row
    <2>4. \A r : r \in e["blocks"] => r = row \/ (r \in d["blocks"] /\ r.key # s.key)
      BY <1>1, <1>5, <2>3
    <2>5. row \in e["blocks"] /\ \A r \in d["blocks"] : r.key # s.key => r \in e["blocks"]
      BY <1>1, <1>5 DEF Replaces
    <2>6. BlockRows(e)
      BY <1>2, <2>2, <2>4 DEF FileOK, BlockRows
    <2>7. GlobalRows(e)
      BY <2>1 DEF FileOK, GlobalRows
    <2>8. Holds(e, head) /\ \A h : HasHeight(d, h) => HasHeight(e, h)
      BY <1>2, <2>2, <2>5 DEF Holds, HasHeight
    <2> QED BY <1>1, <1>5, <2>1, <2>6, <2>7, <2>8 DEF FileOK, e
  <1>6. CASE s.table \notin {"global", "blocks"}
    <2>1. e["global"] = d["global"] /\ e["blocks"] = d["blocks"]
      BY <1>1, <1>3, <1>6
    <2> QED BY <1>1, <1>6, <2>1 DEF FileOK, GlobalRows, BlockRows, HasHeight, e
  <1> QED BY <1>4, <1>5, <1>6

\* A rollback keeps the rows up to its height.
LEMMA DeleteKeepsFile ==
  ASSUME NEW d, FileOK(d), NEW h \in Nat, backend = "sqlite"
  PROVE  /\ FileOK(DeleteAbove(d, h)) /\ DeleteAbove(d, h)["global"] = d["global"]
         /\ HasHeight(d, h) => HasHeight(DeleteAbove(d, h), h)
  <1> DEFINE e == DeleteAbove(d, h)
  <1>1. /\ DOMAIN e = Tables /\ e["global"] = d["global"]
        /\ \A r : r \in e["blocks"] <=> r \in d["blocks"] /\ r.height <= h
    BY DEF DeleteAbove, RolledBackTables, Tables
  <1> HIDE DEF e
  <1>2. GlobalRows(e) /\ BlockRows(e)
    BY <1>1 DEF FileOK, GlobalRows, BlockRows
  <1>3. HasHeight(d, h) => HasHeight(e, h)
    BY <1>1 DEF HasHeight, FileOK, BlockRows, RowHeight
  <1> QED BY <1>1, <1>2, <1>3 DEF FileOK, e

-----------------------------------------------------------------------------
(* The statements of a commit                                              *)

StatementsFor(b) ==
    {Statement("blocks", b.height, 0, b), Statement("blockIndex", b.id, 0, b.height),
     Statement("global", "latest", 0, b.height), Statement("systemTransactions", b.id, 0, b.item),
     Statement("collections", b.item, 0, b.id), Statement("transactions", b.item, 0, b.id),
     Statement("transactionResults", <<b.item>>, 0, b.id),
     Statement("transactionResults", <<b.id, b.item>>, 0, b.id),
     Statement("ledger", b.item, b.height, b.id), Statement("ledger", Empty, 0, b.id),
     Statement("ledger", Flag, b.height, FlagAt(b.height)), Statement("events", b.height, 0, b.id),
     Statement("scheduledTransactionIndex", b.item, 0, b.id),
     Statement("scheduledTransactionBlockIndex", b.item, 0, b.id)}

\* A sequence that begins with another one.
Begins(s, t) == Len(s) \in Nat /\ Len(t) \in Nat /\ Len(t) <= Len(s) /\ \A i \in 1..Len(t) : s[i] = t[i]

LEMMA ConcatBegins ==
  ASSUME NEW X, NEW s \in Seq(X), NEW t \in Seq(X)
  PROVE  s \o t \in Seq(X) /\ Begins(s \o t, s) /\ Len(s \o t) = Len(s) + Len(t)
  BY ConcatProperties, LenProperties DEF Begins

LEMMA StoreBlockStatements ==
  ASSUME NEW d, NEW b
  PROVE  LET s == StoreBlock(d, b)
         IN  /\ s \in Seq(StatementsFor(b)) /\ Len(s) \in {2, 3}
             /\ s[1] = Statement("blocks", b.height, 0, b)
             /\ s[2] = Statement("blockIndex", b.id, 0, b.height)
             /\ Len(s) = 3 <=> (LatestRows(d) = {} \/ b.height >= LatestBlockHeight(d))
             /\ Len(s) = 3 => s[3] = Statement("global", "latest", 0, b.height)
  <1> DEFINE s1 == Statement("blocks", b.height, 0, b)
             s2 == Statement("blockIndex", b.id, 0, b.height)
             s3 == Statement("global", "latest", 0, b.height)
             new == LatestRows(d) = {} \/ b.height >= LatestBlockHeight(d)
  <1>1. s1 \in StatementsFor(b) /\ s2 \in StatementsFor(b) /\ s3 \in StatementsFor(b)
    BY DEF StatementsFor
  <1>2. StoreBlock(d, b) = <<s1, s2>> \o (IF new THEN <<s3>> ELSE <<>>)
    BY DEF StoreBlock
  <1> HIDE DEF s1, s2, s3, new
  <1>3. CASE new
    <2>1. StoreBlock(d, b) = <<s1, s2>> \o <<s3>>
      BY <1>2, <1>3
    <2> DEFINE p == <<s1, s2>>
               q == <<s3>>
    <2>2. /\ p \in Seq(StatementsFor(b)) /\ q \in Seq(StatementsFor(b))
          /\ Len(p) = 2 /\ Len(q) = 1 /\ p[1] = s1 /\ p[2] = s2 /\ q[1] = s3
      BY <1>1
    <2> HIDE DEF p, q
    <2>3. /\ p \o q \in Seq(StatementsFor(b)) /\ Len(p \o q) = 3
          /\ (p \o q)[1] = s1 /\ (p \o q)[2] = s2 /\ (p \o q)[3] = s3
      <3>1. /\ p \o q \in Seq(StatementsFor(b)) /\ Len(p \o q) = 2 + 1
            /\ \A i \in 1..(2 + 1) : (p \o q)[i] = IF i <= 2 THEN p[i] ELSE q[i - 2]
        <4> DEFINE X == StatementsFor(b)
        <4>0. p \in Seq(X) /\ q \in Seq(X)
          BY <2>2
        <4> HIDE DEF X
        <4>1. /\ p \o q \in Seq(X) /\ Len(p \o q) = Len(p) + Len(q)
              /\ \A i \in 1..(Len(p) + Len(q)) : (p \o q)[i] = IF i <= Len(p) THEN p[i] ELSE q[i - Len(p)]
          BY <4>0, ConcatProperties
        <4> QED BY <2>2, <4>1 DEF X
      <3>2. (p \o q)[1] = p[1] /\ (p \o q)[2] = p[2] /\ (p \o q)[3] = q[1]
        BY <3>1
      <3> QED BY <2>2, <3>1, <3>2
    <2> QED BY <1>3, <2>1, <2>3 DEF new, s1, s2, s3, p, q
  <1>4. CASE ~new
    <2>1. StoreBlock(d, b) = <<s1, s2>> \o <<>>
      BY <1>2, <1>4
    <2>3. <<s1, s2>> \in Seq(StatementsFor(b))
      BY <1>1
    <2>2. <<s1, s2>> \o <<>> = <<s1, s2>>
      BY <2>3, ConcatEmptySeq
    <2> QED BY <1>4, <2>1, <2>2, <2>3 DEF new, s1, s2, s3
  <1> QED BY <1>3, <1>4

LEMMA StoreItemStatements ==
  ASSUME NEW b
  PROVE  StoreItem(b) \in Seq(StatementsFor(b))
  <1> DEFINE c == Statement("collections", b.item, 0, b.id)
             t == Statement("transactions", b.item, 0, b.id)
             r1 == Statement("transactionResults", <<b.item>>, 0, b.id)
             r2 == Statement("transactionResults", <<b.id, b.item>>, 0, b.id)
             l == Statement("ledger", b.item, b.height, b.id)
             e == Statement("ledger", Empty, 0, b.id)
  <1>1. /\ c \in StatementsFor(b) /\ t \in StatementsFor(b) /\ r1 \in StatementsFor(b)
        /\ r2 \in StatementsFor(b) /\ l \in StatementsFor(b) /\ e \in StatementsFor(b)
    BY DEF StatementsFor
  <1>2. \/ StoreItem(b) = <<c, t, r1, l>>
        \/ StoreItem(b) = <<t, r2, l>>
        \/ StoreItem(b) = <<e>>
        \/ StoreItem(b) = <<>>
    BY DEF StoreItem
  <1> HIDE DEF c, t, r1, r2, l, e
  <1>3. /\ <<c, t, r1, l>> \in Seq(StatementsFor(b)) /\ <<t, r2, l>> \in Seq(StatementsFor(b))
        /\ <<e>> \in Seq(StatementsFor(b)) /\ <<>> \in Seq(StatementsFor(b))
    BY <1>1
  <1> QED BY <1>2, <1>3

LEMMA IndexesStatements ==
  ASSUME NEW b
  PROVE  IndexStatements(b) \in Seq(StatementsFor(b))
  <1> DEFINE s1 == Statement("scheduledTransactionIndex", b.item, 0, b.id)
             s2 == Statement("scheduledTransactionBlockIndex", b.item, 0, b.id)
  <1>1. s1 \in StatementsFor(b) /\ s2 \in StatementsFor(b)
    BY DEF StatementsFor
  <1>2. IndexStatements(b) = <<s1, s2>> \/ IndexStatements(b) = <<>>
    BY DEF IndexStatements
  <1> HIDE DEF s1, s2
  <1>3. <<s1, s2>> \in Seq(StatementsFor(b)) /\ <<>> \in Seq(StatementsFor(b))
    BY <1>1
  <1> QED BY <1>2, <1>3

\* A commit begins with the statements of StoreBlock.
LEMMA CommitBegins ==
  ASSUME NEW d, NEW b
  PROVE  LET s == CommitStatements(d, b)
         IN  /\ s \in Seq(StatementsFor(b)) /\ Begins(s, StoreBlock(d, b))
             /\ s \o IndexStatements(b) \in Seq(StatementsFor(b))
             /\ Begins(s \o IndexStatements(b), StoreBlock(d, b))
  <1> DEFINE p == StoreBlock(d, b)
             q == IF b = Genesis THEN <<>> ELSE <<Statement("systemTransactions", b.id, 0, b.item)>>
             i == StoreItem(b)
             f == Statement("ledger", Flag, b.height, FlagAt(b.height))
             e == Statement("events", b.height, 0, b.id)
             r == <<f, e>>
             x == IndexStatements(b)
             X == StatementsFor(b)
  <1>1. p \in Seq(X) /\ i \in Seq(X) /\ x \in Seq(X)
    BY StoreBlockStatements, StoreItemStatements, IndexesStatements
  <1>2. q \in Seq(X)
    <2> DEFINE y == Statement("systemTransactions", b.id, 0, b.item)
    <2>1. y \in X
      BY DEF StatementsFor
    <2> HIDE DEF X, y
    <2>2. <<y>> \in Seq(X) /\ <<>> \in Seq(X)
      BY <2>1
    <2> QED BY <2>2 DEF y
  <1>3. r \in Seq(X)
    <2>1. f \in X /\ e \in X
      BY DEF StatementsFor
    <2> HIDE DEF X, f, e
    <2> QED BY <2>1
  <1>4. CommitStatements(d, b) = ((p \o q) \o i) \o r
    BY DEF CommitStatements
  <1> HIDE DEF p, q, i, r, x, X
  <1>5. p \o q \in Seq(X) /\ Begins(p \o q, p)
    BY <1>1, <1>2, ConcatBegins
  <1>6. (p \o q) \o i \in Seq(X) /\ Begins((p \o q) \o i, p \o q)
    BY <1>1, <1>5, ConcatBegins
  <1>7. ((p \o q) \o i) \o r \in Seq(X) /\ Begins(((p \o q) \o i) \o r, (p \o q) \o i)
    BY <1>3, <1>6, ConcatBegins
  <1>8. (((p \o q) \o i) \o r) \o x \in Seq(X)
        /\ Begins((((p \o q) \o i) \o r) \o x, ((p \o q) \o i) \o r)
    BY <1>1, <1>7, ConcatBegins
  <1>9. \A u, v, w : Begins(u, v) /\ Begins(v, w) => Begins(u, w)
    BY DEF Begins
  <1>10. Begins(((p \o q) \o i) \o r, p)
    BY <1>5, <1>6, <1>7, <1>9
  <1>11. Begins((((p \o q) \o i) \o r) \o x, p)
    BY <1>8, <1>9, <1>10
  <1> QED BY <1>4, <1>7, <1>8, <1>10, <1>11 DEF X, p, x

\* The statements of a commit are in order when its block is the head.
LEMMA StatementsAreOK ==
  ASSUME NEW s \in StatementsFor(head), currentHeight = head.height, phase = "commit"
  PROVE  StatementOK(s)
  BY DEF StatementsFor, Statement, StatementOK, Tables

-----------------------------------------------------------------------------
(* The steps                                                               *)

\* The call of a commit, of a block or of Genesis.
LEMMA CommitBeginsOK ==
  ASSUME StoreInv, NEW b \in Blocks, NEW stmts,
         Begins(stmts, StoreBlock(db, b)), stmts \in Seq(StatementsFor(b)),
         head' = b, currentHeight' = b.height, todo' = stmts, phase' = "commit",
         UNCHANGED <<backend, files, active>>
  PROVE  /\ TodoOK' /\ todo' # <<>>
         /\ (db["global"] = {} \/ \A r \in db["global"] : b.height >= r.value)
               => \E i \in 1..Len(todo') : todo'[i].table = "global"
  <1> DEFINE sb == StoreBlock(db, b)
  <1>1. /\ sb \in Seq(StatementsFor(b)) /\ Len(sb) \in {2, 3}
        /\ sb[1] = Statement("blocks", b.height, 0, b)
        /\ Len(sb) = 3 <=> (LatestRows(db) = {} \/ b.height >= LatestBlockHeight(db))
        /\ Len(sb) = 3 => sb[3] = Statement("global", "latest", 0, b.height)
    BY StoreBlockStatements
  <1>a. Begins(stmts, sb)
    OBVIOUS
  <1> HIDE DEF sb
  <1>2. /\ Len(stmts) \in Nat /\ Len(stmts) >= 2 /\ stmts[1] = sb[1]
        /\ Len(sb) = 3 => Len(stmts) >= 3 /\ stmts[3] = sb[3]
    <2>1. 1 \in 1..Len(sb) /\ (Len(sb) = 3 => 3 \in 1..Len(sb))
      BY <1>1
    <2>2. /\ Len(stmts) \in Nat /\ Len(sb) <= Len(stmts)
          /\ \A i \in 1..Len(sb) : stmts[i] = sb[i]
      BY <1>a DEF Begins
    <2>3. Len(sb) = 2 \/ Len(sb) = 3
      BY <1>1
    <2>4. stmts[1] = sb[1] /\ (Len(sb) = 3 => stmts[3] = sb[3])
      BY <2>1, <2>2
    <2>5. Len(stmts) >= 2 /\ (Len(sb) = 3 => Len(stmts) >= 3)
      BY <2>2, <2>3
    <2> QED BY <2>2, <2>4, <2>5
  <1>3. stmts[1].table = "blocks" /\ stmts # <<>>
    BY <1>1, <1>2 DEF Statement
  <1>4. (\A i \in 1..Len(todo) : StatementOK(todo[i]))'
    <2>1. \A i \in 1..Len(stmts) : stmts[i] \in StatementsFor(b)
      BY ElementOfSeq
    <2> SUFFICES ASSUME NEW i \in 1..Len(stmts) PROVE (StatementOK(todo[i]))'
      OBVIOUS
    <2>2. todo'[i] \in StatementsFor(b)
      BY <2>1
    <2> QED BY <2>2 DEF StatementsFor, Statement, StatementOK, Tables
  <1>5. TodoOK'
    BY <1>3, <1>4 DEF TodoOK
  <1>6. ASSUME db["global"] = {} \/ \A r \in db["global"] : b.height >= r.value
        PROVE  \E i \in 1..Len(todo') : todo'[i].table = "global"
    <2>1. FileOK(db)
      BY DEF StoreInv, TypeOK, db
    <2>2. LatestRows(db) = {} \/ b.height >= LatestBlockHeight(db)
      <3>1. CASE db["global"] = {}
        BY <2>1, <3>1, LatestOfFile
      <3>2. ASSUME NEW r \in db["global"], b.height >= r.value
            PROVE  b.height >= LatestBlockHeight(db)
        <4>1. Names(db, r.value)
          BY DEF Names
        <4> QED BY <2>1, <3>2, <4>1, LatestOfFile
      <3> QED BY <1>6, <3>1, <3>2
    <2>3. 3 \in 1..Len(stmts) /\ stmts[3].table = "global"
      BY <1>1, <1>2, <2>2 DEF Statement
    <2> QED BY <2>3
  <1> QED BY <1>3, <1>5, <1>6

LEMMA CommitStep ==
  ASSUME StoreInv, NEW item \in Items \cup {Empty}, Commit(item)
  PROVE  StoreInv'
  <1> DEFINE b == [id |-> produced + 1, height |-> head.height + 1, parent |-> head.id, item |-> item]
             stmts == CommitStatements(db, b) \o IndexStatements(b)
  <1>1. /\ phase = "ready" /\ produced < MaxBlocks
        /\ head' = b /\ currentHeight' = b.height /\ todo' = stmts /\ produced' = produced + 1
        /\ phase' = "commit" /\ UNCHANGED <<backend, files, saved, creating, active, torn>>
    BY DEF Commit
  <1>2. b \in Blocks /\ b.height = head.height + 1 /\ b.height \in Nat /\ head.height \in Nat
    BY DEF StoreInv, TypeOK, Blocks
  <1>3. stmts \in Seq(StatementsFor(b)) /\ Begins(stmts, StoreBlock(db, b))
    BY CommitBegins
  <1> HIDE DEF b, stmts
  <1>4. /\ TodoOK' /\ todo' # <<>>
        /\ (db["global"] = {} \/ \A r \in db["global"] : b.height >= r.value)
               => \E i \in 1..Len(todo') : todo'[i].table = "global"
    BY <1>1, <1>2, <1>3, CommitBeginsOK
  <1>5. TypeOK'
    <2>1. produced' \in 0..MaxBlocks
      BY <1>1, StoreAssumption DEF StoreInv, TypeOK
    <2>2. phase' \in {"commit", "rollback"} <=> todo' # <<>>
      BY <1>1, <1>4
    <2> QED BY <1>1, <1>2, <2>1, <2>2 DEF StoreInv, TypeOK
  <1>6. db' = db /\ (\A f \in Files : FileOK(files[f]))'
    BY <1>1 DEF StoreInv, FileOK, GlobalRows, BlockRows, RowHeight, db
  <1>7. ASSUME "rollback" \notin torn PROVE ChainsOK'
    <2>1. ChainsOK /\ Names(db, head.height)
      BY <1>1, <1>7 DEF StoreInv, ChainsOK
    <2>2. \A r \in db["global"] : b.height >= r.value
      <3>1. FileOK(db)
        BY DEF StoreInv, TypeOK, db
      <3> QED BY <1>2, <2>1, <3>1 DEF Names, FileOK, GlobalRows
    <2>3. (\A f \in Files : LatestHeld(files[f]))'
      BY <1>1, <2>1 DEF ChainsOK, LatestHeld, HasHeight
    <2>4. \E i \in 1..Len(todo') : todo'[i].table = "global"
      BY <1>4, <2>2
    <2> QED BY <1>1, <1>6, <2>1, <2>3, <2>4 DEF ChainsOK
  <1> QED BY <1>1, <1>4, <1>5, <1>6, <1>7 DEF StoreInv

LEMMA ExecuteStep ==
  ASSUME StoreInv, Execute
  PROVE  StoreInv'
  <1> DEFINE s == todo[1]
             e == Write(db, s, currentHeight)
  <1>1. PICK X : todo \in Seq(X)
    BY DEF StoreInv, TodoOK
  <1>2. /\ todo # <<>> /\ Len(todo) \in Nat /\ Len(todo) >= 1 /\ Head(todo) = s
        /\ Tail(todo) \in Seq(X) /\ Len(Tail(todo)) = Len(todo) - 1
        /\ \A i \in 1..(Len(todo) - 1) : Tail(todo)[i] = todo[i + 1]
    BY <1>1, LenProperties, HeadTailProperties, EmptySeq DEF Execute
  <1>3. /\ files' = [files EXCEPT ![active] = e] /\ todo' = Tail(todo)
        /\ phase' = IF Len(todo) > 1 THEN phase ELSE IF phase = "rollback" THEN "reload" ELSE "ready"
        /\ UNCHANGED <<backend, saved, creating, active, currentHeight, head, produced, torn>>
    BY <1>2 DEF Execute, db
  <1>4. /\ FileOK(db) /\ StatementOK(s) /\ currentHeight \in Nat /\ head \in Blocks /\ active \in Files
        /\ DOMAIN files = Files /\ phase \in {"commit", "rollback"}
        /\ phase = "commit" => currentHeight = head.height
    BY <1>2 DEF StoreInv, TypeOK, TodoOK, db
  <1>5. /\ FileOK(e)
        /\ s.table # "global" => e["global"] = db["global"]
        /\ s.table = "global" => Names(e, currentHeight) /\ \A r \in e["global"] : r.value = currentHeight
        /\ s.table # "blocks" => e["blocks"] = db["blocks"]
        /\ s.table = "blocks" => Holds(e, head)
        /\ \A h : HasHeight(db, h) => HasHeight(e, h)
    BY <1>4, WriteKeepsFile DEF StoreInv
  <1> HIDE DEF e, s
  <1>6. db' = e /\ \A f \in Files : f # active => files'[f] = files[f]
    BY <1>3, <1>4 DEF db
  <1>7. (\A f \in Files : FileOK(files[f]))'
    <2>1. \A d : FileOK(d) => FileOK(d)'
      BY <1>3 DEF FileOK, GlobalRows, BlockRows, RowHeight
    <2> QED BY <1>3, <1>4, <1>5, <1>6, <2>1 DEF StoreInv, db
  <1>8. todo' = <<>> <=> Len(todo) = 1
    <2>1. \A t \in Seq(X) : t = <<>> <=> Len(t) = 0
      BY EmptySeq
    <2>2. todo' \in Seq(X) /\ Len(todo') = Len(todo) - 1
      BY <1>2, <1>3
    <2>3. todo' = <<>> <=> Len(todo') = 0
      BY <2>1, <2>2
    <2> QED BY <1>2, <2>2, <2>3
  <1>9. TypeOK'
    <2>1. DOMAIN files' = Files /\ \A f \in Files : DOMAIN files'[f] = Tables
      BY <1>3, <1>4, <1>7 DEF FileOK
    <2>2. phase' \in {"commit", "rollback"} <=> todo' # <<>>
      BY <1>2, <1>3, <1>4, <1>8
    <2> QED BY <1>3, <1>4, <2>1, <2>2 DEF StoreInv, TypeOK
  <1>10. phase = "commit" => Holds(e, head)
    BY <1>5 DEF StoreInv, TodoOK, Holds, s
  <1>11. TodoOK'
    <2>1. (\A i \in 1..Len(todo) : StatementOK(todo[i]))'
      <3>1. ASSUME NEW i \in 1..Len(todo') PROVE (StatementOK(todo[i]))'
        <4>1. i + 1 \in 1..Len(todo) /\ todo'[i] = todo[i + 1] /\ Len(todo) > 1
          BY <1>2, <1>3
        <4>2. StatementOK(todo[i + 1]) /\ phase' = phase
          BY <1>3, <4>1 DEF StoreInv, TodoOK
        <4> QED BY <1>3, <4>1, <4>2 DEF StatementOK
      <3> QED BY <3>1
    <2>2. phase' = "commit" => currentHeight' = head'.height /\ Holds(db', head')
      BY <1>3, <1>4, <1>6, <1>10
    <2>3. phase' # "rollback"
      BY <1>2, <1>3 DEF StoreInv, TodoOK
    <2> QED BY <1>2, <1>3, <2>1, <2>2, <2>3 DEF TodoOK
  <1>12. ASSUME "rollback" \notin torn PROVE ChainsOK'
    <2>1. ChainsOK
      BY <1>12 DEF StoreInv
    <2>2. LatestHeld(e)
      <3>1. CASE s.table = "global"
        <4>1. HasHeight(db, currentHeight)
          <5>1. CASE phase = "rollback"
            BY <2>1, <5>1 DEF ChainsOK
          <5>2. CASE phase = "commit"
            <6>1. Holds(db, head) /\ currentHeight = head.height
              BY <3>1, <5>2 DEF StoreInv, TodoOK, s
            <6> QED BY <1>4, <6>1 DEF Holds, HasHeight, FileOK, BlockRows
          <5> QED BY <1>4, <5>1, <5>2
        <4> QED BY <1>5, <3>1, <4>1 DEF LatestHeld
      <3>2. CASE s.table # "global"
        <4>1. phase = "commit"
          BY <1>4, <3>2 DEF StoreInv, TodoOK, s
        <4>2. LatestHeld(db)
          BY <1>4, <2>1, <4>1 DEF ChainsOK, db
        <4> QED BY <1>5, <3>2, <4>2 DEF LatestHeld
      <3> QED BY <3>1, <3>2
    <2>3. \A f \in Files : LatestHeld(files'[f])
      BY <1>3, <1>4, <1>6, <2>1, <2>2 DEF ChainsOK, db
    <2>4. db["global"] # {} => e["global"] # {}
      BY <1>5 DEF Names
    <2>5. \A n \in SnapshotNames : files'[n] # NoRows => files'[n]["global"] # {}
      <3>1. active \in SnapshotNames => e["global"] # {}
        BY <2>1, <2>4 DEF ChainsOK
      <3> QED BY <1>3, <1>4, <1>6, <2>1, <3>1 DEF ChainsOK, Files
    <2>6. phase' \in {"reload", "ready"} \/ active \in SnapshotNames => e["global"] # {}
      <3>1. CASE phase = "rollback"
        BY <2>1, <2>4, <3>1 DEF ChainsOK
      <3>2. CASE phase = "commit" /\ phase' = "ready"
        <4>1. Len(todo) = 1
          BY <1>2, <1>3, <3>2
        <4>2. Names(db, head.height) \/ s.table = "global"
          BY <2>1, <3>2, <4>1 DEF ChainsOK, s
        <4> QED BY <1>5, <4>2 DEF Names
      <3> QED BY <1>3, <1>4, <2>1, <2>4, <3>1, <3>2 DEF ChainsOK
    <2>7. ASSUME phase = "commit"
          PROVE  \/ Names(e, head.height)
                 \/ \E i \in 1..Len(todo') : todo'[i].table = "global"
      <3>1. CASE s.table = "global"
        BY <1>4, <1>5, <2>7, <3>1
      <3>2. CASE s.table # "global" /\ Names(db, head.height)
        BY <1>5, <3>2 DEF Names
      <3>3. ASSUME NEW i \in 1..Len(todo), todo[i].table = "global", s.table # "global"
            PROVE  \E j \in 1..Len(todo') : todo'[j].table = "global"
        <4>1. i - 1 \in 1..Len(todo') /\ todo'[i - 1] = todo[i]
          BY <1>2, <1>3, <3>3 DEF s
        <4> QED BY <3>3, <4>1
      <3> QED BY <2>1, <2>7, <3>1, <3>2, <3>3 DEF ChainsOK
    <2>8. phase' = "ready" => Names(e, head.height)
      <3>1. phase' = "ready" => Len(todo') = 0 /\ phase = "commit"
        BY <1>2, <1>3, <1>4
      <3> QED BY <2>7, <3>1
    <2>9. phase' # "rollback"
      BY <1>2, <1>3 DEF StoreInv, TodoOK
    <2>10. phase' = "ready" => Holds(e, head)
      BY <1>3, <1>4, <1>10
    <2> QED BY <1>3, <1>4, <1>6, <2>3, <2>5, <2>6, <2>7, <2>8, <2>9, <2>10 DEF ChainsOK
  <1> QED BY <1>3, <1>7, <1>9, <1>11, <1>12 DEF StoreInv

\* Nothing of the files, of the open file or of the running call changes.
LEMMA SameFiles ==
  ASSUME StoreInv, UNCHANGED <<backend, files, active>>
  PROVE  db' = db /\ (\A f \in Files : FileOK(files[f]))'
  BY DEF StoreInv, FileOK, GlobalRows, BlockRows, RowHeight, db

LEMMA ReloadStep ==
  ASSUME StoreInv, Reload
  PROVE  StoreInv'
  <1>1. /\ phase \in {"start", "reload"} /\ UNCHANGED <<backend, files, saved, creating, active, produced, torn>>
        /\ db' = db /\ (\A f \in Files : FileOK(files[f]))' /\ FileOK(db) /\ todo = <<>>
    BY SameFiles DEF Reload, StoreInv, TypeOK, db
  <1>2. <<>> \in Seq({}) /\ Len(<<>>) = 0
    OBVIOUS
  <1>3. ASSUME NEW b \in LatestBlocks(db), head' = b, phase' = "ready", UNCHANGED <<todo, currentHeight>>
        PROVE  StoreInv'
    <2>1. b \in Blocks /\ Holds(db, b) /\ Names(db, b.height)
      BY <1>1, <1>3, LatestBlockOfFile
    <2>2. TypeOK'
      BY <1>1, <1>3, <2>1 DEF StoreInv, TypeOK
    <2>3. TodoOK'
      BY <1>1, <1>2, <1>3 DEF TodoOK
    <2>4. ASSUME "rollback" \notin torn PROVE ChainsOK'
      <3>1. ChainsOK
        BY <2>4 DEF StoreInv
      <3>2. (\A f \in Files : LatestHeld(files[f]))'
        BY <1>1, <3>1 DEF ChainsOK, LatestHeld, HasHeight
      <3>3. db["global"] # {}
        BY <2>1 DEF Names
      <3> QED BY <1>1, <1>3, <2>1, <3>1, <3>2, <3>3 DEF ChainsOK
    <2> QED BY <1>1, <2>2, <2>3, <2>4 DEF StoreInv
  <1>4. ASSUME LatestBlocks(db) = {}, head' = Genesis, currentHeight' = 0,
               todo' = CommitStatements(db, Genesis), phase' = "commit"
        PROVE  StoreInv'
    <2>1. Genesis \in Blocks /\ Genesis.height = 0
      BY DEF Genesis, Blocks
    <2>2. /\ TodoOK' /\ todo' # <<>>
          /\ (db["global"] = {} \/ \A r \in db["global"] : Genesis.height >= r.value)
               => \E i \in 1..Len(todo') : todo'[i].table = "global"
      <3>1. /\ CommitStatements(db, Genesis) \in Seq(StatementsFor(Genesis))
            /\ Begins(CommitStatements(db, Genesis), StoreBlock(db, Genesis))
        BY CommitBegins
      <3> QED BY <1>1, <1>4, <2>1, <3>1, CommitBeginsOK
    <2>3. TypeOK'
      BY <1>1, <1>4, <2>1, <2>2 DEF StoreInv, TypeOK
    <2>4. ASSUME "rollback" \notin torn PROVE ChainsOK'
      <3>1. ChainsOK
        BY <2>4 DEF StoreInv
      <3>2. (\A f \in Files : LatestHeld(files[f]))' /\ LatestHeld(db)
        BY <1>1, <3>1 DEF ChainsOK, LatestHeld, HasHeight, StoreInv, TypeOK, db
      <3>3. db["global"] = {}
        BY <1>1, <1>4, <3>2, LatestBlockOfFile
      <3> QED BY <1>1, <1>4, <2>1, <2>2, <3>1, <3>2, <3>3 DEF ChainsOK
    <2> QED BY <1>1, <2>2, <2>3, <2>4 DEF StoreInv
  <1>5. ASSUME LatestBlocks(db) = {}, head' = head, currentHeight' = currentHeight, todo' = <<>>,
               phase' = IF phase = "start" THEN "down" ELSE "ready"
        PROVE  StoreInv'
    <2>2. TypeOK'
      BY <1>1, <1>5 DEF StoreInv, TypeOK
    <2>3. TodoOK'
      BY <1>1, <1>2, <1>5 DEF TodoOK
    <2>4. ASSUME "rollback" \notin torn PROVE ChainsOK'
      <3>1. ChainsOK
        BY <2>4 DEF StoreInv
      <3>2. (\A f \in Files : LatestHeld(files[f]))' /\ LatestHeld(db)
        BY <1>1, <3>1 DEF ChainsOK, LatestHeld, HasHeight, StoreInv, TypeOK, db
      <3>3. phase' = "down"
        BY <1>1, <1>5, <3>1, <3>2, LatestBlockOfFile DEF ChainsOK
      <3> QED BY <1>1, <3>1, <3>2, <3>3 DEF ChainsOK
    <2> QED BY <1>1, <2>2, <2>3, <2>4 DEF StoreInv
  <1> QED BY <1>1, <1>3, <1>4, <1>5 DEF Reload

LEMMA RollbackStep ==
  ASSUME StoreInv, NEW h \in 0..MaxBlocks, RollbackToBlockHeight(h)
  PROVE  StoreInv'
  <1> DEFINE e == DeleteAbove(db, h)
             s == Statement("global", "latest", 0, h)
  <1>1. /\ backend = "sqlite" /\ phase = "ready" /\ h \in Nat
        /\ files' = [files EXCEPT ![active] = e] /\ currentHeight' = h
        /\ todo' = <<s>> /\ phase' = "rollback"
        /\ torn' = (IF Found(db, "blocks", h) THEN torn ELSE torn \cup {"rollback"})
        /\ UNCHANGED <<backend, saved, creating, active, head, produced>>
    BY StoreAssumption DEF RollbackToBlockHeight, db
  <1>2. FileOK(db) /\ active \in Files /\ DOMAIN files = Files
    BY DEF StoreInv, TypeOK, db
  <1>3. FileOK(e) /\ e["global"] = db["global"] /\ (HasHeight(db, h) => HasHeight(e, h))
    BY <1>1, <1>2, DeleteKeepsFile
  <1> HIDE DEF e
  <1>4. db' = e /\ \A f \in Files : f # active => files'[f] = files[f]
    BY <1>1, <1>2 DEF db
  <1>5. (\A f \in Files : FileOK(files[f]))'
    <2>1. \A d : FileOK(d) => FileOK(d)'
      BY <1>1 DEF FileOK, GlobalRows, BlockRows, RowHeight
    <2> QED BY <1>1, <1>2, <1>3, <1>4, <2>1 DEF StoreInv, db
  <1>6. s.table = "global" /\ s.key = "latest" /\ s.version = 0 /\ s.value = h
    BY DEF Statement
  <1> HIDE DEF s
  <1>7. todo' \in Seq({s}) /\ Len(todo') = 1 /\ todo'[1] = s /\ todo' # <<>>
    BY <1>1
  <1>8. TodoOK'
    <2>1. (\A i \in 1..Len(todo) : StatementOK(todo[i]))'
      BY <1>1, <1>6, <1>7 DEF StatementOK, Tables
    <2> QED BY <1>1, <1>6, <1>7, <2>1 DEF TodoOK
  <1>9. TypeOK'
    <2>1. DOMAIN files' = Files /\ \A f \in Files : DOMAIN files'[f] = Tables
      BY <1>1, <1>2, <1>5 DEF FileOK
    <2>2. torn' \subseteq {"commit", "rollback"}
      BY <1>1 DEF StoreInv, TypeOK
    <2> QED BY <1>1, <1>7, <2>1, <2>2 DEF StoreInv, TypeOK
  <1>10. ASSUME "rollback" \notin torn' PROVE ChainsOK'
    <2>1. ChainsOK /\ Found(db, "blocks", h)
      BY <1>1, <1>10 DEF StoreInv
    <2>2. HasHeight(e, h)
      BY <1>2, <1>3, <2>1, BlocksOfFile DEF Found
    <2>3. (\A f \in Files : (f = active /\ phase = "rollback") \/ LatestHeld(files[f]))'
      BY <1>1, <1>4, <2>1 DEF ChainsOK, LatestHeld, HasHeight
    <2>4. e["global"] # {}
      BY <1>1, <1>3, <2>1 DEF ChainsOK
    <2>5. \A n \in SnapshotNames : files'[n] # NoRows => files'[n]["global"] # {}
      BY <1>1, <1>2, <1>4, <2>1, <2>4 DEF ChainsOK, Files
    <2> QED BY <1>1, <1>4, <2>2, <2>3, <2>4, <2>5 DEF ChainsOK
  <1> QED BY <1>1, <1>5, <1>8, <1>9, <1>10 DEF StoreInv

LEMMA SnapshotStep ==
  ASSUME StoreInv, NEW name \in SnapshotNames,
         SnapshotCreate(name) \/ CreateSnapshot(name) \/ LoadSnapshot(name)
  PROVE  StoreInv'
  <1>1. /\ phase = "ready" /\ todo = <<>> /\ FileOK(db) /\ name \in Files /\ DOMAIN files = Files
        /\ active \in Files
    BY DEF StoreInv, TypeOK, SnapshotCreate, CreateSnapshot, LoadSnapshot, Files, db
  <1>2. UNCHANGED <<backend, currentHeight, todo, head, produced, torn>>
    BY DEF SnapshotCreate, CreateSnapshot, LoadSnapshot
  <1>3. creating' \in [SnapshotNames -> 0..MaxCreates]
    BY StoreAssumption DEF SnapshotCreate, CreateSnapshot, LoadSnapshot, StoreInv, TypeOK
  <1>4. CASE UNCHANGED <<files, active, phase>>
    <2>1. db' = db /\ (\A f \in Files : FileOK(files[f]))'
      BY <1>2, <1>4, SameFiles
    <2>2. TypeOK'
      BY <1>2, <1>3, <1>4 DEF StoreInv, TypeOK
    <2>3. TodoOK'
      BY <1>1, <1>2, <1>4 DEF StoreInv, TodoOK
    <2>4. ChainsOK => ChainsOK'
      BY <1>2, <1>4, <2>1 DEF ChainsOK, LatestHeld, HasHeight, Holds, Names
    <2> QED BY <1>2, <2>1, <2>2, <2>3, <2>4 DEF StoreInv
  <1>5. CASE files' = [files EXCEPT ![name] = db] /\ phase' = "reload" /\ active' = active
    <2>1. (\A f \in Files : FileOK(files[f]))'
      <3>1. \A d : FileOK(d) => FileOK(d)'
        BY <1>2 DEF FileOK, GlobalRows, BlockRows, RowHeight
      <3> QED BY <1>1, <1>5, <3>1 DEF StoreInv
    <2>2. db' = db
      BY <1>1, <1>5 DEF db
    <2>3. TypeOK'
      <3>1. DOMAIN files' = Files /\ \A f \in Files : DOMAIN files'[f] = Tables
        BY <1>1, <1>5, <2>1 DEF FileOK
      <3> QED BY <1>1, <1>2, <1>3, <1>5, <3>1 DEF StoreInv, TypeOK
    <2>4. TodoOK'
      BY <1>1, <1>2, <1>5 DEF StoreInv, TodoOK
    <2>5. ASSUME ChainsOK PROVE ChainsOK'
      <3>1. db["global"] # {} /\ LatestHeld(db)
        BY <1>1, <2>5 DEF ChainsOK, db
      <3>2. (\A f \in Files : LatestHeld(files[f]))'
        BY <1>1, <1>5, <2>5, <3>1 DEF ChainsOK, LatestHeld, HasHeight
      <3>3. \A n \in SnapshotNames : files'[n] # NoRows => files'[n]["global"] # {}
        BY <1>1, <1>5, <2>5, <3>1 DEF ChainsOK, Files
      <3> QED BY <1>2, <1>5, <2>2, <3>1, <3>2, <3>3 DEF ChainsOK
    <2> QED BY <1>2, <2>1, <2>3, <2>4, <2>5 DEF StoreInv
  <1>6. CASE LoadSnapshot(name)
    <2>1. /\ files' = files /\ active' = name /\ phase' = "reload" /\ files[name] # NoRows
      BY <1>6 DEF LoadSnapshot
    <2>2. (\A f \in Files : FileOK(files[f]))'
      BY <1>2, <2>1 DEF StoreInv, FileOK, GlobalRows, BlockRows, RowHeight
    <2>3. TypeOK'
      BY <1>1, <1>2, <1>3, <2>1 DEF StoreInv, TypeOK
    <2>4. TodoOK'
      BY <1>1, <1>2, <2>1 DEF StoreInv, TodoOK
    <2>5. ASSUME ChainsOK PROVE ChainsOK'
      <3>1. db' = files[name]
        BY <2>1 DEF db
      <3>2. (\A f \in Files : LatestHeld(files[f]))'
        BY <1>1, <2>1, <2>5 DEF ChainsOK, LatestHeld, HasHeight
      <3> QED BY <2>1, <2>5, <3>1, <3>2 DEF ChainsOK
    <2> QED BY <1>2, <2>2, <2>3, <2>4, <2>5 DEF StoreInv
  <1> QED BY <1>4, <1>5, <1>6 DEF SnapshotCreate, CreateSnapshot

LEMMA StopStep ==
  ASSUME StoreInv, Stop \/ New
  PROVE  StoreInv'
  <1>1. <<>> \in Seq({}) /\ Len(<<>>) = 0
    OBVIOUS
  <1>2. CASE Stop
    <2>1. /\ phase' = "down" /\ todo' = <<>> /\ creating' = NoRequests
          /\ torn' = torn \cup (IF todo = <<>> THEN {} ELSE {phase})
          /\ UNCHANGED <<backend, files, saved, active, currentHeight, head, produced>>
      BY <1>2 DEF Stop
    <2>2. db' = db /\ (\A f \in Files : FileOK(files[f]))'
      BY <2>1, SameFiles
    <2>3. NoRequests \in [SnapshotNames -> 0..MaxCreates]
      BY StoreAssumption DEF NoRequests
    <2>4. TypeOK'
      BY <2>1, <2>3 DEF StoreInv, TypeOK
    <2>5. TodoOK'
      BY <1>1, <2>1 DEF TodoOK
    <2>6. ASSUME "rollback" \notin torn' PROVE ChainsOK'
      <3>1. ChainsOK /\ phase # "rollback"
        BY <2>1, <2>6 DEF StoreInv, TypeOK
      <3>2. (\A f \in Files : LatestHeld(files[f]))'
        BY <2>1, <3>1 DEF ChainsOK, LatestHeld, HasHeight
      <3> QED BY <2>1, <2>2, <3>1, <3>2 DEF ChainsOK
    <2> QED BY <2>1, <2>2, <2>4, <2>5, <2>6 DEF StoreInv
  <1>3. CASE New
    <2>1. /\ phase = "down" /\ active' = Main /\ currentHeight' = 0 /\ phase' = "start" /\ todo = <<>>
          /\ UNCHANGED <<backend, files, saved, creating, todo, head, produced, torn>>
      BY <1>3 DEF New, StoreInv, TypeOK
    <2>2. (\A f \in Files : FileOK(files[f]))'
      BY <2>1 DEF StoreInv, FileOK, GlobalRows, BlockRows, RowHeight
    <2>3. Main \in Files /\ Main \notin SnapshotNames
      BY StoreAssumption DEF Files
    <2>4. TypeOK'
      BY <2>1, <2>3 DEF StoreInv, TypeOK
    <2>5. TodoOK'
      BY <1>1, <2>1 DEF TodoOK
    <2>6. ASSUME ChainsOK PROVE ChainsOK'
      <3>1. (\A f \in Files : LatestHeld(files[f]))'
        BY <2>1, <2>6 DEF ChainsOK, LatestHeld, HasHeight
      <3> QED BY <2>1, <2>3, <2>6, <3>1 DEF ChainsOK
    <2> QED BY <2>1, <2>2, <2>4, <2>5, <2>6 DEF StoreInv
  <1> QED BY <1>2, <1>3

LEMMA StoreInvInit == ASSUME Init PROVE StoreInv
  <1>1. /\ backend \in Backends /\ files = [f \in Files |-> NoRows]
        /\ creating = NoRequests /\ active = Main /\ currentHeight = 0 /\ phase = "down"
        /\ todo = <<>> /\ head = Genesis /\ produced = 0 /\ torn = {}
    BY DEF Init
  <1>2. <<>> \in Seq({}) /\ Len(<<>>) = 0
    OBVIOUS
  <1>3. DOMAIN NoRows = Tables /\ NoRows["global"] = {} /\ NoRows["blocks"] = {}
    BY DEF NoRows, Tables
  <1>4. FileOK(NoRows)
    BY <1>3 DEF FileOK, GlobalRows, BlockRows
  <1>5. Genesis \in Blocks /\ NoRequests \in [SnapshotNames -> 0..MaxCreates] /\ Main \in Files
    BY StoreAssumption DEF Genesis, Blocks, NoRequests, Files
  <1>6. TypeOK
    BY <1>1, <1>3, <1>5, StoreAssumption DEF TypeOK
  <1>7. TodoOK
    BY <1>1, <1>2 DEF TodoOK
  <1>8. ChainsOK
    BY <1>1, <1>3, StoreAssumption DEF ChainsOK, LatestHeld, Files
  <1> QED BY <1>1, <1>4, <1>6, <1>7, <1>8, StoreAssumption DEF StoreInv

LEMMA StoreInvStep ==
  ASSUME StoreInv, [Next]_vars
  PROVE  StoreInv'
  <1>1. CASE UNCHANGED vars
    <2>1. /\ UNCHANGED <<backend, files, saved, creating, active, currentHeight, phase, todo, head,
                         produced, torn>>
      BY <1>1 DEF vars
    <2>2. db' = db /\ (\A f \in Files : FileOK(files[f]))'
      BY <2>1, SameFiles
    <2>3. TypeOK'
      BY <2>1 DEF StoreInv, TypeOK
    <2>4. TodoOK'
      BY <2>1, <2>2 DEF StoreInv, TodoOK, StatementOK, Holds
    <2>5. ChainsOK => ChainsOK'
      BY <2>1, <2>2 DEF ChainsOK, LatestHeld, HasHeight, Holds, Names
    <2> QED BY <2>1, <2>2, <2>3, <2>4, <2>5 DEF StoreInv
  <1> QED BY <1>1, CommitStep, ExecuteStep, ReloadStep, RollbackStep, SnapshotStep, StopStep DEF Next

\* The rows of the store have the shape that its readers expect, wherever the process is
\* killed, and so has everything that is read back from them.
THEOREM StoreTypes == Spec => []TypeOK
  <1>1. Init => StoreInv
    BY StoreInvInit
  <1>2. StoreInv /\ [Next]_vars => StoreInv'
    BY StoreInvStep
  <1>3. StoreInv => TypeOK
    BY DEF StoreInv
  <1> QED BY <1>1, <1>2, <1>3, PTL DEF Spec

\* Between calls the pending block is built on the block that the store names as the
\* latest one, although commits are cut short between any two statements, snapshots are
\* created and loaded, and the process is started again on what it finds.
THEOREM HeadFollowsStore == Spec => []HeadIsLatest
  <1>1. Init => StoreInv
    BY StoreInvInit
  <1>2. StoreInv /\ [Next]_vars => StoreInv'
    BY StoreInvStep
  <1>3. ASSUME StoreInv PROVE HeadIsLatest
    <2>1. FileOK(db)
      BY <1>3 DEF StoreInv, TypeOK, db
    <2> QED BY <1>3, <2>1, LatestBlockOfFile DEF StoreInv, ChainsOK, HeadIsLatest
  <1> QED BY <1>1, <1>2, <1>3, PTL DEF Spec

\* The latest height names a block that is stored at every moment, so that a process that
\* was killed in a commit finds a block to continue on.
THEOREM LatestBlockIsStored == Spec => []LatestIsStored
  <1>1. Init => StoreInv
    BY StoreInvInit
  <1>2. StoreInv /\ [Next]_vars => StoreInv'
    BY StoreInvStep
  <1>3. ASSUME StoreInv PROVE LatestIsStored
    <2>1. FileOK(db) /\ active \in Files
      BY <1>3 DEF StoreInv, TypeOK, db
    <2>2. ASSUME LatestRows(db) # {}, phase # "rollback", "rollback" \notin torn
          PROVE  LatestBlocks(db) # {}
      <3>1. LatestHeld(db)
        BY <1>3, <2>1, <2>2 DEF StoreInv, ChainsOK, db
      <3>2. db["global"] # {}
        BY <2>1, <2>2, LatestOfFile
      <3> QED BY <2>1, <3>1, <3>2, LatestBlockOfFile
    <2> QED BY <2>2 DEF LatestIsStored
  <1> QED BY <1>1, <1>2, <1>3, PTL DEF Spec

\* A snapshot changes only while it is the open database: a commit and a rollback write
\* to that one, and of two requests for one name the slower finds the file and leaves it.
THEOREM SnapshotsCreatedOnce == Spec => SnapshotsAreCreatedOnce
  <1> DEFINE Kept == \A n \in SnapshotNames : files[n] # NoRows /\ files'[n] # files[n] => active = n
  <1>1. Init => StoreInv
    BY StoreInvInit
  <1>2. StoreInv /\ [Next]_vars => StoreInv'
    BY StoreInvStep
  <1>3. StoreInv /\ [Next]_vars => [Kept]_vars
    <2> SUFFICES ASSUME StoreInv, Next PROVE Kept
      OBVIOUS
    <2>1. DOMAIN files = Files /\ active \in Files /\ SnapshotNames \subseteq Files
      BY DEF StoreInv, TypeOK, Files
    <2>2. CASE files' = files
      BY <2>2
    <2>3. ASSUME NEW d, files' = [files EXCEPT ![active] = d] PROVE Kept
      BY <2>1, <2>3
    <2>4. CASE Execute
      BY <2>3, <2>4 DEF Execute
    <2>5. ASSUME NEW h \in 0..MaxBlocks, RollbackToBlockHeight(h) PROVE Kept
      BY <2>3, <2>5 DEF RollbackToBlockHeight
    <2>6. ASSUME NEW name \in SnapshotNames, CreateSnapshot(name) PROVE Kept
      BY <2>1, <2>2, <2>6 DEF CreateSnapshot
    <2> QED BY <2>2, <2>4, <2>5, <2>6 DEF Next, Commit, Reload, SnapshotCreate, LoadSnapshot, Stop, New
  <1> QED BY <1>1, <1>2, <1>3, PTL DEF Spec, SnapshotsAreCreatedOnce

-----------------------------------------------------------------------------
(* The contents of a store in which no call was cut short                  *)

\* The statements that block b takes, except for the latest height.
IsWritten(s, b) ==
    \/ s = Statement("blocks", b.height, 0, b)
    \/ s = Statement("blockIndex", b.id, 0, b.height)
    \/ s = Statement("events", b.height, 0, b.id)
    \/ s = Statement("ledger", Flag, b.height, FlagAt(b.height))
    \/ b = Genesis /\ s = Statement("ledger", Empty, 0, b.id)
    \/ b # Genesis /\ s = Statement("systemTransactions", b.id, 0, b.item)
    \/ b.item \in Txs /\ s = Statement("collections", b.item, 0, b.id)
    \/ b.item \in Txs /\ s = Statement("transactionResults", <<b.item>>, 0, b.id)
    \/ b.item \in Callbacks /\ s = Statement("transactionResults", <<b.id, b.item>>, 0, b.id)
    \/ b.item \in Items /\ s = Statement("transactions", b.item, 0, b.id)
    \/ b.item \in Items /\ s = Statement("ledger", b.item, b.height, b.id)
    \/ b.item \in Callbacks /\ s = Statement("scheduledTransactionIndex", b.item, 0, b.id)
    \/ b.item \in Callbacks /\ s = Statement("scheduledTransactionBlockIndex", b.item, 0, b.id)

\* The blocks of a chain of height n: one at each height, on top of the one below,
\* with no identifier and no transaction twice.
IsChain(C, n) ==
    /\ C \subseteq Blocks /\ Genesis \in C /\ n \in Nat
    /\ \A b \in C : b.height <= n /\ b.id <= produced
    /\ \A h \in 0..n : \E b \in C : b.height = h
    /\ \A b, c \in C : b.height = c.height \/ b.id = c.id \/ (b.item = c.item /\ b.item \in Items)
                          => b = c
    /\ \A b, c \in C : b.height = c.height + 1 => b.parent = c.id

\* In Redis a block's value of the register Flag may be replaced by a later one.
Forgotten(s, b, n) == backend = "redis" /\ s.table = "ledger" /\ s.key = Flag /\ b.height < n

\* Every row of the tables that a rollback cleans is one of a block of the chain.
OnlyChain(d, C) ==
    \A t \in RolledBackTables : \A r \in d[t] :
        \E b \in C : \E s : IsWritten(s, b) /\ s.table = t /\ r = RowOf(s, b.height)

\* The rows of every block of the chain are there, but for those that statements of
\* pend, about the last block, have yet to write.
AllOfChain(d, C, n, pend) ==
    \A b \in C : \A s :
        IsWritten(s, b) => \/ b.height = n /\ s \in pend
                           \/ Forgotten(s, b, n)
                           \/ RowOf(s, b.height) \in d[s.table]

\* The rows that stay behind after a rollback do not contradict the chain.
Leftovers(d, C) ==
    /\ \A r \in d["systemTransactions"] :
         /\ r.version = 0 /\ r.key \in 1..produced
         /\ \A b \in C : b.id = r.key => b.item = r.value
    /\ \A r \in d["scheduledTransactionBlockIndex"] :
         /\ r.version = 0 /\ r.value \in 1..produced
         /\ \A b \in C : b.id = r.value => b.item = r.key

\* The item ran in the block with this identifier, which may be rolled back since.
HasRun(d, id, item) == \E x \in d["systemTransactions"] : x.key = id /\ x.value = item

\* A row of the index names a block of the chain with that item, or one in which it ran.
Indexed(d, C) ==
    \A r \in d["scheduledTransactionBlockIndex"] :
        (\E b \in C \ {Genesis} : b.id = r.value /\ b.item = r.key) \/ HasRun(d, r.value, r.key)

\* The file holds the chain C of height n, except for what pend will write.
FileIs(d, C, n, pend) ==
    /\ IsChain(C, n) /\ OnlyChain(d, C) /\ AllOfChain(d, C, n, pend)
    /\ Leftovers(d, C) /\ Indexed(d, C)

\* The file is empty or holds a chain up to the height that it names as the latest.
Complete(d) == d = NoRows \/ \E C, n : FileIs(d, C, n, {}) /\ Names(d, n)

Statements == {todo[i] : i \in 1..Len(todo)}

\* Every file that is not being written is complete; what the file holds that the
\* pending block is built on, and the one that a call is writing to.
WholeInv ==
    /\ \A f \in Files : (f = active /\ phase \in {"commit", "rollback"}) \/ Complete(files[f])
    /\ phase = "ready" => \E C : FileIs(db, C, head.height, {}) /\ head \in C
    /\ phase = "commit" => /\ \E C : FileIs(db, C, head.height, Statements) /\ head \in C
                           /\ \A s \in Statements : s.table = "global" \/ IsWritten(s, head)
    /\ phase = "rollback" => \E C : FileIs(db, C, currentHeight, {})

\* What a statement of block b is about.
LEMMA WrittenFields ==
  ASSUME NEW b, NEW s, IsWritten(s, b)
  PROVE  /\ s.table \in Tables \ {"global"}
         /\ s.table # "ledger" => s.version = 0
         /\ s.table \in {"blocks", "events"} => s.key = b.height
         /\ s.table \in {"blockIndex", "systemTransactions"} => s.key = b.id
         /\ s.table \in {"collections", "transactions", "scheduledTransactionIndex",
                         "scheduledTransactionBlockIndex"} => s.key = b.item /\ b.item \in Items
         /\ s.table = "transactionResults" =>
              \/ s.key = <<b.item>> /\ b.item \in Txs
              \/ s.key = <<b.id, b.item>> /\ b.item \in Callbacks
         /\ s.table = "ledger" =>
              \/ s.key = Flag /\ s.version = b.height /\ s.value = FlagAt(b.height)
              \/ s.key = Empty /\ s.version = 0 /\ s.value = b.id /\ b = Genesis
              \/ s.key = b.item /\ b.item \in Items /\ s.version = b.height /\ s.value = b.id
         /\ s.table = "blocks" => s.value = b
         /\ s.table = "blockIndex" => s.value = b.height
         /\ s.table = "systemTransactions" => s.value = b.item /\ b # Genesis
         /\ s.table \notin {"blocks", "blockIndex", "systemTransactions", "ledger"} => s.value = b.id
  BY DEF IsWritten, Statement, Tables, Items

\* The key of a row tells whose it is, except for the register that every block writes.
LEMMA KeyOwner ==
  ASSUME NEW C, NEW n, IsChain(C, n), NEW b \in C, NEW c \in C, NEW s, NEW u,
         IsWritten(s, b), IsWritten(u, c), s.table = u.table, s.key = u.key,
         s.table # "ledger" \/ s.key # Flag
  PROVE  b = c
  <1>1. \A x, y \in C : x.height = y.height \/ x.id = y.id \/ (x.item = y.item /\ x.item \in Items)
                          => x = y
    BY DEF IsChain
  <1>2. CASE s.table = "ledger"
    <2>1. \/ s.key = Empty /\ b = Genesis
          \/ s.key = b.item /\ b.item \in Items
      BY <1>2, WrittenFields
    <2>2. \/ u.key = Empty /\ c = Genesis
          \/ u.key = c.item /\ c.item \in Items
      <3>1. u.table = "ledger" /\ u.key # Flag
        BY <1>2
      <3> QED BY <3>1, WrittenFields
    <2> QED BY <1>1, <2>1, <2>2, StoreAssumption
  <1>3. CASE s.table = "transactionResults"
    <2>1. \/ s.key = <<b.item>> /\ b.item \in Items
          \/ s.key = <<b.id, b.item>>
      BY <1>3, WrittenFields DEF Items
    <2>2. \/ u.key = <<c.item>> /\ c.item \in Items
          \/ u.key = <<c.id, c.item>>
      <3>1. u.table = "transactionResults"
        BY <1>3
      <3> QED BY <3>1, WrittenFields DEF Items
    <2>3. \A x, y, z : <<x>> # <<y, z>>
      OBVIOUS
    <2>4. \A x, y : <<x>> = <<y>> => x = y
      OBVIOUS
    <2>5. \A x, y, z, w : <<x, y>> = <<z, w>> => x = z
      OBVIOUS
    <2> QED BY <1>1, <2>1, <2>2, <2>3, <2>4, <2>5
  <1>4. CASE s.table \notin {"ledger", "transactionResults"}
    <2>1. s.table \in Tables \ {"global"}
      BY WrittenFields
    <2>2. \/ s.table \in {"blocks", "events"}
          \/ s.table \in {"blockIndex", "systemTransactions"}
          \/ s.table \in {"collections", "transactions", "scheduledTransactionIndex",
                          "scheduledTransactionBlockIndex"}
      BY <1>4, <2>1 DEF Tables
    <2>3. b.height = c.height \/ b.id = c.id \/ (b.item = c.item /\ b.item \in Items)
      BY <2>2, WrittenFields
    <2> QED BY <1>1, <2>3
  <1> QED BY <1>2, <1>3, <1>4

\* A block writes each key of a table once.
LEMMA SameStatement ==
  ASSUME NEW b, NEW s, NEW u, IsWritten(s, b), IsWritten(u, b), s.table = u.table, s.key = u.key
  PROVE  s.version = u.version /\ s.value = u.value
  <1>1. CASE s.table = "ledger"
    <2>1. Flag # Empty /\ Flag \notin Items /\ Empty \notin Items
      BY StoreAssumption
    <2>2. \/ s.key = Flag /\ s.version = b.height /\ s.value = FlagAt(b.height)
          \/ s.key = Empty /\ s.version = 0 /\ s.value = b.id
          \/ s.key = b.item /\ b.item \in Items /\ s.version = b.height /\ s.value = b.id
      BY <1>1, WrittenFields
    <2>3. \/ u.key = Flag /\ u.version = b.height /\ u.value = FlagAt(b.height)
          \/ u.key = Empty /\ u.version = 0 /\ u.value = b.id
          \/ u.key = b.item /\ b.item \in Items /\ u.version = b.height /\ u.value = b.id
      <3>1. u.table = "ledger"
        BY <1>1
      <3> QED BY <3>1, WrittenFields
    <2> QED BY <2>1, <2>2, <2>3
  <1>2. CASE s.table # "ledger"
    <2>1. s.version = 0 /\ u.version = 0
      BY <1>2, WrittenFields
    <2>2. s.value = u.value
      <3>1. s.table \in {"blocks", "blockIndex", "systemTransactions"} \/
            s.table \notin {"blocks", "blockIndex", "systemTransactions", "ledger"}
        BY <1>2
      <3> QED BY <3>1, WrittenFields
    <2> QED BY <2>1, <2>2
  <1> QED BY <1>1, <1>2

\* A statement of the last block replaces no row of the chain but its own, and in Redis
\* an earlier value of the register that every block writes.
LEMMA ReplacesOwn ==
  ASSUME NEW C, NEW n, IsChain(C, n), NEW b \in C, b.height = n, NEW c \in C, NEW s, NEW u,
         IsWritten(s, b), IsWritten(u, c), s.table = u.table,
         Replaces(RowOf(u, c.height), s, n)
  PROVE  RowOf(u, c.height) = RowOf(s, n) \/ Forgotten(u, c, n)
  <1>1. /\ RowOf(u, c.height).key = u.key /\ RowOf(u, c.height).value = u.value
        /\ RowOf(u, c.height).height = RowHeight(c.height) /\ RowOf(s, n).height = RowHeight(n)
    BY WrittenFields DEF RowOf
  <1>2. u.key = s.key
    BY <1>1 DEF Replaces
  <1>3. ASSUME b = c PROVE RowOf(u, c.height) = RowOf(s, n)
    BY <1>2, <1>3, SameStatement DEF RowOf
  <1>4. CASE s.table # "ledger" \/ s.key # Flag
    BY <1>2, <1>3, <1>4, KeyOwner
  <1>5. CASE s.table = "ledger" /\ s.key = Flag /\ backend = "redis"
    <2>1. c.height <= n /\ c.height \in Nat /\ n \in Nat
      BY DEF IsChain, Blocks
    <2>2. c.height = n => b = c
      BY DEF IsChain
    <2> QED BY <1>2, <1>3, <1>5, <2>1, <2>2 DEF Forgotten
  <1>6. CASE s.table = "ledger" /\ s.key = Flag /\ backend # "redis"
    <2>1. c.height = n
      BY <1>1, <1>6 DEF Replaces, RowHeight
    <2> QED BY <1>3, <2>1 DEF IsChain
  <1> QED BY <1>4, <1>5, <1>6

\* The statements of the last block complete the chain one by one.
LEMMA WriteKeepsChain ==
  ASSUME NEW d, DOMAIN d = Tables, NEW C, NEW n, NEW pend, FileIs(d, C, n, pend),
         NEW b \in C, b.height = n, NEW s, IsWritten(s, b),
         NEW rest, \A u \in pend : u = s \/ u \in rest, produced \in Nat
  PROVE  FileIs(Write(d, s, n), C, n, rest)
  <1> DEFINE e == Write(d, s, n)
             row == RowOf(s, n)
  <1>1. s.table \in Tables \ {"global"}
    BY WrittenFields
  <1>2. /\ \A t \in Tables : t # s.table => e[t] = d[t]
        /\ \A r : r \in e[s.table] <=> (r \in d[s.table] /\ ~Replaces(r, s, n)) \/ r = row
    BY <1>1, WriteOfStatement
  <1>3. /\ row.key = s.key /\ row.version = s.version /\ row.value = s.value
    BY DEF RowOf
  <1> HIDE DEF e, row
  <1>4. IsChain(C, n) /\ OnlyChain(d, C) /\ AllOfChain(d, C, n, pend) /\ Leftovers(d, C)
    BY DEF FileIs
  <1>5. OnlyChain(e, C)
    <2> SUFFICES ASSUME NEW t \in RolledBackTables, NEW r \in e[t]
                 PROVE  \E c \in C : \E u : IsWritten(u, c) /\ u.table = t /\ r = RowOf(u, c.height)
      BY DEF OnlyChain
    <2>1. t \in Tables
      BY DEF RolledBackTables, Tables
    <2>2. CASE r \in d[t]
      BY <1>4, <2>2 DEF OnlyChain
    <2>3. CASE r \notin d[t]
      <3>1. t = s.table /\ r = RowOf(s, b.height)
        BY <1>2, <2>1, <2>3 DEF row
      <3> QED BY <3>1
    <2> QED BY <2>2, <2>3
  <1>6. AllOfChain(e, C, n, rest)
    <2> SUFFICES ASSUME NEW c \in C, NEW u, IsWritten(u, c)
                 PROVE  \/ c.height = n /\ u \in rest
                        \/ Forgotten(u, c, n)
                        \/ RowOf(u, c.height) \in e[u.table]
      BY DEF AllOfChain
    <2>1. u.table \in Tables
      BY WrittenFields
    <2>2. CASE c.height = n /\ u = s
      BY <1>2, <2>2 DEF row
    <2>3. CASE RowOf(u, c.height) \in d[u.table] /\ u.table = s.table
      BY <1>2, <1>4, <2>3, ReplacesOwn DEF row
    <2>4. CASE RowOf(u, c.height) \in d[u.table] /\ u.table # s.table
      BY <1>2, <2>1, <2>4
    <2> QED BY <1>4, <2>2, <2>3, <2>4 DEF AllOfChain
  <1>7. Leftovers(e, C)
    <2>1. {"systemTransactions", "scheduledTransactionBlockIndex"} \subseteq Tables
      BY DEF Tables
    <2>2. b \in Blocks /\ b.id \in Nat /\ b.id <= produced /\ (b # Genesis => b.id # 0)
      BY <1>4 DEF IsChain, Blocks, Genesis
    <2>3. \A c \in C : c.id = b.id => c = b
      BY <1>4 DEF IsChain
    <2>4. ASSUME NEW r \in e["systemTransactions"]
          PROVE  /\ r.version = 0 /\ r.key \in 1..produced
                 /\ \A c \in C : c.id = r.key => c.item = r.value
      <3>1. CASE r \in d["systemTransactions"]
        BY <1>4, <3>1 DEF Leftovers
      <3>2. CASE r \notin d["systemTransactions"]
        <4>1. s.table = "systemTransactions" /\ r = row
          BY <1>2, <2>1, <3>2
        <4>2. s.key = b.id /\ s.value = b.item /\ b # Genesis /\ s.version = 0
          BY <4>1, WrittenFields
        <4> QED BY <1>3, <2>2, <2>3, <4>1, <4>2
      <3> QED BY <3>1, <3>2
    <2>5. ASSUME NEW r \in e["scheduledTransactionBlockIndex"]
          PROVE  /\ r.version = 0 /\ r.value \in 1..produced
                 /\ \A c \in C : c.id = r.value => c.item = r.key
      <3>1. CASE r \in d["scheduledTransactionBlockIndex"]
        BY <1>4, <3>1 DEF Leftovers
      <3>2. CASE r \notin d["scheduledTransactionBlockIndex"]
        <4>1. s.table = "scheduledTransactionBlockIndex" /\ r = row
          BY <1>2, <2>1, <3>2
        <4>2. s.key = b.item /\ s.value = b.id /\ b.item \in Items /\ s.version = 0
          BY <4>1, WrittenFields
        <4>3. b # Genesis
          BY <4>2, StoreAssumption DEF Genesis
        <4> QED BY <1>3, <2>2, <2>3, <4>1, <4>2, <4>3
      <3> QED BY <3>1, <3>2
    <2> QED BY <2>4, <2>5 DEF Leftovers
  <1>8. Indexed(e, C)
    <2>0. /\ "systemTransactions" \in Tables /\ "scheduledTransactionBlockIndex" \in Tables
          /\ Indexed(d, C)
      BY DEF Tables, FileIs
    <2>1. ASSUME NEW id, NEW item, HasRun(d, id, item) PROVE HasRun(e, id, item)
      <3>1. PICK x \in d["systemTransactions"] : x.key = id /\ x.value = item
        BY <2>1 DEF HasRun
      <3>2. CASE x \in e["systemTransactions"]
        BY <3>1, <3>2 DEF HasRun
      <3>3. CASE x \notin e["systemTransactions"]
        <4>1. s.table = "systemTransactions" /\ Replaces(x, s, n) /\ row \in e["systemTransactions"]
          BY <1>2, <2>0, <3>3
        <4>2. s.key = b.id /\ s.value = b.item
          BY <4>1, WrittenFields
        <4>3. x.key = s.key
          BY <4>1 DEF Replaces
        <4>4. x.value = b.item
          BY <1>4, <4>2, <4>3 DEF Leftovers
        <4> QED BY <1>3, <3>1, <4>1, <4>2, <4>3, <4>4 DEF HasRun
      <3> QED BY <3>2, <3>3
    <2>2. ASSUME NEW r \in e["scheduledTransactionBlockIndex"]
          PROVE  \/ \E c \in C \ {Genesis} : c.id = r.value /\ c.item = r.key
                 \/ HasRun(e, r.value, r.key)
      <3>1. CASE r \in d["scheduledTransactionBlockIndex"]
        BY <2>0, <2>1, <3>1 DEF Indexed
      <3>2. CASE r \notin d["scheduledTransactionBlockIndex"]
        <4>1. s.table = "scheduledTransactionBlockIndex" /\ r = row
          BY <1>2, <2>0, <3>2
        <4>2. s.key = b.item /\ s.value = b.id /\ b.item \in Items
          BY <4>1, WrittenFields
        <4>3. b # Genesis
          BY <4>2, StoreAssumption DEF Genesis
        <4> QED BY <1>3, <4>1, <4>2, <4>3
      <3> QED BY <3>1, <3>2
    <2> QED BY <2>2 DEF Indexed
  <1> QED BY <1>4, <1>5, <1>6, <1>7, <1>8 DEF FileIs, e

\* The latest height is not part of the chain.
LEMMA LatestIsApart ==
  ASSUME NEW d, NEW e, NEW C, NEW n, NEW pend, FileIs(d, C, n, pend),
         \A t \in Tables \ {"global"} : e[t] = d[t],
         NEW rest, \A u \in pend : u.table = "global" \/ u \in rest
  PROVE  FileIs(e, C, n, rest)
  <1>1. IsChain(C, n) /\ OnlyChain(d, C) /\ AllOfChain(d, C, n, pend) /\ Leftovers(d, C)
    BY DEF FileIs
  <1>2. OnlyChain(e, C)
    <2>1. RolledBackTables \subseteq Tables \ {"global"}
      BY DEF RolledBackTables, Tables
    <2> QED BY <1>1, <2>1 DEF OnlyChain
  <1>3. AllOfChain(e, C, n, rest)
    <2> SUFFICES ASSUME NEW c \in C, NEW u, IsWritten(u, c)
                 PROVE  \/ c.height = n /\ u \in rest
                        \/ Forgotten(u, c, n)
                        \/ RowOf(u, c.height) \in e[u.table]
      BY DEF AllOfChain
    <2>1. u.table \in Tables \ {"global"}
      BY WrittenFields
    <2> QED BY <1>1, <2>1 DEF AllOfChain
  <1>4. Leftovers(e, C)
    <2>1. {"systemTransactions", "scheduledTransactionBlockIndex"} \subseteq Tables \ {"global"}
      BY DEF Tables
    <2> QED BY <1>1, <2>1 DEF Leftovers
  <1>5. Indexed(e, C)
    <2>1. {"systemTransactions", "scheduledTransactionBlockIndex"} \subseteq Tables \ {"global"}
      BY DEF Tables
    <2>2. Indexed(d, C)
      BY DEF FileIs
    <2> QED BY <2>1, <2>2 DEF Indexed, HasRun
  <1> QED BY <1>1, <1>2, <1>3, <1>4, <1>5 DEF FileIs

\* A file that does not change keeps its chain.
LEMMA ChainStays ==
  ASSUME backend' = backend, produced \in Nat, produced' \in Nat, produced <= produced'
  PROVE  /\ \A d, C, n, pend : FileIs(d, C, n, pend) => FileIs(d, C, n, pend)'
         /\ \A d : Complete(d) => Complete(d)'
  <1>1. \A s, b : IsWritten(s, b)' <=> IsWritten(s, b)
    BY DEF IsWritten
  <1>2. \A s, h : RowOf(s, h)' = RowOf(s, h)
    BY DEF RowOf, RowHeight
  <1>3. ASSUME NEW d, NEW C, NEW n, NEW pend, FileIs(d, C, n, pend)
        PROVE  FileIs(d, C, n, pend)'
    <2>1. IsChain(C, n)'
      BY <1>3 DEF FileIs, IsChain, Blocks
    <2>2. OnlyChain(d, C)'
      BY <1>2, <1>3 DEF FileIs, OnlyChain
    <2>3. AllOfChain(d, C, n, pend)'
      BY <1>2, <1>3 DEF FileIs, AllOfChain, Forgotten
    <2>4. Leftovers(d, C)'
      BY <1>3 DEF FileIs, Leftovers
    <2>5. Indexed(d, C)'
      BY <1>3 DEF FileIs, Indexed, HasRun
    <2> QED BY <2>1, <2>2, <2>3, <2>4, <2>5 DEF FileIs
  <1>4. ASSUME NEW d, Complete(d) PROVE Complete(d)'
    BY <1>3, <1>4 DEF Complete, Names
  <1> QED BY <1>3, <1>4

-----------------------------------------------------------------------------
(* The steps keep the chain                                                *)

LEMMA WholeExecute ==
  ASSUME StoreInv, WholeInv, Execute, torn = {}
  PROVE  WholeInv'
  <1> DEFINE s == todo[1]
             e == Write(db, s, currentHeight)
  <1>1. PICK X : todo \in Seq(X)
    BY DEF StoreInv, TodoOK
  <1>2. /\ todo # <<>> /\ Len(todo) \in Nat /\ Len(todo) >= 1 /\ Head(todo) = s
        /\ Tail(todo) \in Seq(X) /\ Len(Tail(todo)) = Len(todo) - 1
        /\ \A i \in 1..(Len(todo) - 1) : Tail(todo)[i] = todo[i + 1]
    BY <1>1, LenProperties, HeadTailProperties, EmptySeq DEF Execute
  <1>3. /\ files' = [files EXCEPT ![active] = e] /\ todo' = Tail(todo)
        /\ phase' = IF Len(todo) > 1 THEN phase ELSE IF phase = "rollback" THEN "reload" ELSE "ready"
        /\ UNCHANGED <<backend, saved, creating, active, currentHeight, head, produced, torn>>
    BY <1>2 DEF Execute, db
  <1>4. /\ FileOK(db) /\ StatementOK(s) /\ currentHeight \in Nat /\ head \in Blocks /\ active \in Files
        /\ DOMAIN files = Files /\ phase \in {"commit", "rollback"} /\ DOMAIN db = Tables
        /\ phase = "commit" => currentHeight = head.height
        /\ produced \in Nat /\ produced' = produced
    BY <1>2, <1>3 DEF StoreInv, TypeOK, TodoOK, FileOK, db
  <1>5. /\ s.table = "global" => Names(e, currentHeight) /\ \A t \in Tables \ {"global"} : e[t] = db[t]
    <2>1. s.table = "global" => Names(e, currentHeight)
      BY <1>4, WriteKeepsFile DEF StoreInv
    <2>2. s.table \in Tables
      BY <1>4 DEF StatementOK
    <2> QED BY <1>4, <2>1, <2>2, WriteOfStatement
  <1>6. Statements' = {todo'[i] : i \in 1..Len(todo')} /\ s \in Statements
    BY <1>2 DEF Statements, s
  <1>7. /\ \A u \in Statements : u = s \/ u \in Statements'
        /\ \A u \in Statements' : u \in Statements
    <2>1. ASSUME NEW i \in 1..Len(todo), i # 1 PROVE todo[i] \in Statements'
      <3>1. i - 1 \in 1..Len(todo') /\ todo'[i - 1] = todo[i]
        BY <1>2, <1>3, <2>1
      <3> QED BY <1>6, <3>1
    <2>2. ASSUME NEW i \in 1..Len(todo') PROVE todo'[i] \in Statements
      <3>1. i + 1 \in 1..Len(todo) /\ todo'[i] = todo[i + 1]
        BY <1>2, <1>3
      <3> QED BY <3>1 DEF Statements
    <2>3. \A u \in Statements : u = s \/ u \in Statements'
      BY <2>1 DEF Statements, s
    <2>4. \A u \in Statements' : u \in Statements
      BY <1>6, <2>2
    <2> QED BY <2>3, <2>4
  <1>a. Len(todo) = 1 => Statements' = {}
    BY <1>2, <1>3, <1>6
  <1>b. StoreInv'
    BY ExecuteStep
  <1>c. \A d, C, n, pend : FileIs(d, C, n, pend) => FileIs(d, C, n, pend)'
    BY <1>3, <1>4, ChainStays
  <1>d. \A d : Complete(d) => Complete(d)'
    BY <1>3, <1>4, ChainStays
  <1> HIDE DEF e, s
  <1>8. db' = e /\ \A f \in Files : f # active => files'[f] = files[f]
    BY <1>3, <1>4 DEF db
  <1>9. (\A f \in Files : f # active => Complete(files[f]))'
    BY <1>3, <1>8, <1>d DEF WholeInv
  <1>10. CASE phase = "commit"
    <2>1. PICK C : FileIs(db, C, head.height, Statements) /\ head \in C
      BY <1>10 DEF WholeInv
    <2>2. \A u \in Statements : u.table = "global" \/ IsWritten(u, head)
      BY <1>10 DEF WholeInv
    <2>3. FileIs(e, C, head.height, Statements')
      <3>1. CASE s.table = "global"
        BY <1>5, <1>7, <2>1, <3>1, LatestIsApart
      <3>2. CASE IsWritten(s, head)
        BY <1>4, <1>7, <1>10, <2>1, <3>2, WriteKeepsChain DEF e
      <3> QED BY <1>6, <2>2, <3>1, <3>2
    <2>4. (\A u \in Statements : u.table = "global" \/ IsWritten(u, head))'
      <3>1. \A u : IsWritten(u, head) => IsWritten(u, head)'
        BY <1>3 DEF IsWritten
      <3> QED BY <1>7, <2>2, <3>1
    <2>5. CASE Len(todo) > 1
      <3>1. phase' = "commit" /\ active' = active
        BY <1>3, <1>10, <2>5
      <3>2. (\E D : FileIs(db, D, head.height, Statements) /\ head \in D)'
        BY <1>3, <1>8, <1>c, <2>1, <2>3
      <3>3. (\A f \in Files : (f = active /\ phase \in {"commit", "rollback"}) \/ Complete(files[f]))'
        BY <1>3, <1>9, <3>1
      <3> QED BY <2>4, <3>1, <3>2, <3>3 DEF WholeInv
    <2>6. CASE Len(todo) = 1
      <3>1. phase' = "ready" /\ active' = active
        BY <1>3, <1>10, <2>6
      <3>2. (\E D : FileIs(db, D, head.height, {}) /\ head \in D)'
        BY <1>3, <1>8, <1>a, <1>c, <2>1, <2>3, <2>6
      <3>3. Names(e, head.height)
        BY <1>3, <1>8, <1>b, <3>1 DEF StoreInv, ChainsOK, Names
      <3>4. Complete(db)'
        <4>1. Names(db, head.height)'
          BY <1>3, <1>8, <3>3 DEF Names
        <4> QED BY <3>2, <4>1 DEF Complete
      <3>5. (\A f \in Files : Complete(files[f]))'
        BY <1>3, <1>9, <3>4 DEF db
      <3> QED BY <3>1, <3>2, <3>5 DEF WholeInv
    <2> QED BY <1>2, <2>5, <2>6
  <1>11. CASE phase = "rollback"
    <2>1. PICK C : FileIs(db, C, currentHeight, {})
      BY <1>11 DEF WholeInv
    <2>2. s.table = "global" /\ phase' = "reload"
      BY <1>3, <1>11 DEF StoreInv, TodoOK, s
    <2>3. FileIs(e, C, currentHeight, {}) /\ Names(e, currentHeight)
      BY <1>5, <2>1, <2>2, LatestIsApart
    <2>4. Complete(db)'
      <3>1. Complete(e)
        BY <2>3 DEF Complete
      <3> QED BY <1>8, <1>d, <3>1
    <2>5. (\A f \in Files : Complete(files[f]))'
      BY <1>3, <1>9, <2>4 DEF db
    <2> QED BY <2>2, <2>5 DEF WholeInv
  <1> QED BY <1>4, <1>10, <1>11

\* The elements of a sequence.
In(x, s) == \E i \in 1..Len(s) : s[i] = x

LEMMA InConcat ==
  ASSUME NEW X, NEW s \in Seq(X), NEW t \in Seq(X), NEW x
  PROVE  In(x, s \o t) <=> In(x, s) \/ In(x, t)
  <1>1. /\ Len(s) \in Nat /\ Len(t) \in Nat /\ Len(s \o t) = Len(s) + Len(t)
        /\ \A i \in 1..Len(s) : (s \o t)[i] = s[i]
        /\ \A i \in 1..Len(t) : (s \o t)[Len(s) + i] = t[i]
    BY ConcatProperties, LenProperties
  <1>2. In(x, s) => In(x, s \o t)
    BY <1>1 DEF In
  <1>3. ASSUME NEW i \in 1..Len(t), t[i] = x PROVE In(x, s \o t)
    <2>1. Len(s) + i \in 1..Len(s \o t) /\ (s \o t)[Len(s) + i] = x
      BY <1>1, <1>3
    <2> QED BY <2>1 DEF In
  <1>4. ASSUME NEW i \in 1..Len(s \o t), (s \o t)[i] = x PROVE In(x, s) \/ In(x, t)
    <2>1. CASE i <= Len(s)
      BY <1>1, <1>4, <2>1 DEF In
    <2>2. CASE i > Len(s)
      <3>1. i - Len(s) \in 1..Len(t) /\ Len(s) + (i - Len(s)) = i
        BY <1>1, <2>2
      <3>2. t[i - Len(s)] = x
        BY <1>1, <1>4, <3>1
      <3> QED BY <3>1, <3>2 DEF In
    <2> QED BY <1>1, <2>1, <2>2
  <1> QED BY <1>2, <1>3, <1>4 DEF In

LEMMA InShort ==
  ASSUME NEW x
  PROVE  /\ ~In(x, <<>>)
         /\ \A a : In(x, <<a>>) <=> x = a
         /\ \A a, b : In(x, <<a, b>>) <=> x \in {a, b}
         /\ \A a, b, c : In(x, <<a, b, c>>) <=> x \in {a, b, c}
         /\ \A a, b, c, d : In(x, <<a, b, c, d>>) <=> x \in {a, b, c, d}
  <1>1. 1..0 = {} /\ 1..1 = {1} /\ 1..2 = {1, 2} /\ 1..3 = {1, 2, 3} /\ 1..4 = {1, 2, 3, 4}
    OBVIOUS
  <1>2. ~In(x, <<>>)
    BY DEF In
  <1>3. \A a : In(x, <<a>>) <=> x = a
    BY <1>1 DEF In
  <1>4. \A a, b : In(x, <<a, b>>) <=> x \in {a, b}
    BY <1>1 DEF In
  <1>5. \A a, b, c : In(x, <<a, b, c>>) <=> x \in {a, b, c}
    BY <1>1 DEF In
  <1>6. \A a, b, c, d : In(x, <<a, b, c, d>>) <=> x \in {a, b, c, d}
    BY <1>1 DEF In
  <1> QED BY <1>2, <1>3, <1>4, <1>5, <1>6

\* The statements of a commit and of the indexes behind it are those of the block, and
\* that of the latest height.
LEMMA CommitWrites ==
  ASSUME NEW d, NEW b, b.item \in Items => b # Genesis, NEW x
  PROVE  LET s == CommitStatements(d, b) \o IndexStatements(b)
         IN  /\ IsWritten(x, b) => In(x, s)
             /\ In(x, s) => x.table = "global" \/ IsWritten(x, b)
  <1> DEFINE p == StoreBlock(d, b)
             y == Statement("systemTransactions", b.id, 0, b.item)
             q == IF b = Genesis THEN <<>> ELSE <<y>>
             i == StoreItem(b)
             f == Statement("ledger", Flag, b.height, FlagAt(b.height))
             e == Statement("events", b.height, 0, b.id)
             r == <<f, e>>
             k == IndexStatements(b)
             X == StatementsFor(b)
             all == (((p \o q) \o i) \o r) \o k
  <1>1. CommitStatements(d, b) \o IndexStatements(b) = all
    BY DEF CommitStatements
  <1>2. p \in Seq(X) /\ i \in Seq(X) /\ k \in Seq(X)
    BY StoreBlockStatements, StoreItemStatements, IndexesStatements
  <1>3. y \in X /\ f \in X /\ e \in X
    BY DEF StatementsFor
  <1>p. /\ x = Statement("blocks", b.height, 0, b) => In(x, p)
        /\ x = Statement("blockIndex", b.id, 0, b.height) => In(x, p)
        /\ In(x, p) => \/ x = Statement("blocks", b.height, 0, b)
                       \/ x = Statement("blockIndex", b.id, 0, b.height)
                       \/ x.table = "global"
    <2> DEFINE g == Statement("global", "latest", 0, b.height)
    <2>1. /\ Len(p) \in {2, 3}
          /\ p[1] = Statement("blocks", b.height, 0, b)
          /\ p[2] = Statement("blockIndex", b.id, 0, b.height)
          /\ Len(p) = 3 => p[3] = g
      BY StoreBlockStatements
    <2>2. g.table = "global"
      BY DEF Statement
    <2> HIDE DEF p, g
    <2>3. \A j \in 1..Len(p) : j = 1 \/ j = 2 \/ (j = 3 /\ Len(p) = 3)
      <3>1. Len(p) = 2 \/ Len(p) = 3
        BY <2>1
      <3>2. CASE Len(p) = 2
        BY <3>2
      <3>3. CASE Len(p) = 3
        BY <3>3
      <3> QED BY <3>1, <3>2, <3>3
    <2>4. 1 \in 1..Len(p) /\ 2 \in 1..Len(p)
      BY <2>1
    <2> QED BY <2>1, <2>2, <2>3, <2>4 DEF In
  <1>i. In(x, i) <=> \/ b.item \in Txs /\ x = Statement("collections", b.item, 0, b.id)
                     \/ b.item \in Items /\ x = Statement("transactions", b.item, 0, b.id)
                     \/ b.item \in Txs /\ x = Statement("transactionResults", <<b.item>>, 0, b.id)
                     \/ b.item \in Callbacks /\ x = Statement("transactionResults", <<b.id, b.item>>, 0, b.id)
                     \/ b.item \in Items /\ x = Statement("ledger", b.item, b.height, b.id)
                     \/ b = Genesis /\ x = Statement("ledger", Empty, 0, b.id)
    <2> DEFINE c == Statement("collections", b.item, 0, b.id)
               t == Statement("transactions", b.item, 0, b.id)
               r1 == Statement("transactionResults", <<b.item>>, 0, b.id)
               r2 == Statement("transactionResults", <<b.id, b.item>>, 0, b.id)
               l == Statement("ledger", b.item, b.height, b.id)
               m == Statement("ledger", Empty, 0, b.id)
    <2>1. /\ b.item \in Txs => i = <<c, t, r1, l>>
          /\ b.item \in Callbacks => i = <<t, r2, l>>
          /\ b.item \notin Items /\ b = Genesis => i = <<m>>
          /\ b.item \notin Items /\ b # Genesis => i = <<>>
      BY StoreAssumption DEF StoreItem, Items
    <2>2. b.item \in Items => b # Genesis
      OBVIOUS
    <2>3. b.item \in Items <=> b.item \in Txs \/ b.item \in Callbacks
      BY DEF Items
    <2>4. ~(b.item \in Txs /\ b.item \in Callbacks)
      BY StoreAssumption
    <2> HIDE DEF c, t, r1, r2, l, m, i
    <2> SUFFICES In(x, i) <=> \/ b.item \in Txs /\ x = c
                              \/ b.item \in Items /\ x = t
                              \/ b.item \in Txs /\ x = r1
                              \/ b.item \in Callbacks /\ x = r2
                              \/ b.item \in Items /\ x = l
                              \/ b = Genesis /\ x = m
      BY DEF c, t, r1, r2, l, m
    <2> QED BY <2>1, <2>2, <2>3, <2>4, InShort
  <1>k. In(x, k) <=> \/ b.item \in Callbacks /\ x = Statement("scheduledTransactionIndex", b.item, 0, b.id)
                     \/ b.item \in Callbacks /\ x = Statement("scheduledTransactionBlockIndex", b.item, 0, b.id)
    <2> DEFINE s1 == Statement("scheduledTransactionIndex", b.item, 0, b.id)
               s2 == Statement("scheduledTransactionBlockIndex", b.item, 0, b.id)
    <2>1. k = IF b.item \in Callbacks THEN <<s1, s2>> ELSE <<>>
      BY DEF IndexStatements
    <2> HIDE DEF s1, s2, k
    <2>2. In(x, k) <=> b.item \in Callbacks /\ x \in {s1, s2}
      BY <2>1, InShort
    <2> QED BY <2>2 DEF s1, s2
  <1> HIDE DEF p, i, k, X, y, f, e
  <1>q. q \in Seq(X) /\ (In(x, q) <=> b # Genesis /\ x = y)
    <2>1. <<>> \in Seq(X) /\ <<y>> \in Seq(X)
      BY <1>3
    <2>2. CASE b = Genesis
      BY <2>1, <2>2, InShort
    <2>3. CASE b # Genesis
      BY <2>1, <2>3, InShort
    <2> QED BY <2>2, <2>3
  <1>r. r \in Seq(X) /\ (In(x, r) <=> x = f \/ x = e)
    <2>1. r \in Seq(X)
      BY <1>3
    <2>2. In(x, <<f, e>>) <=> x \in {f, e}
      BY InShort
    <2> QED BY <2>1, <2>2
  <1> HIDE DEF q, r
  <1>4. p \o q \in Seq(X) /\ (In(x, p \o q) <=> In(x, p) \/ In(x, q))
    BY <1>2, <1>q, ConcatProperties, InConcat
  <1>5. (p \o q) \o i \in Seq(X) /\ (In(x, (p \o q) \o i) <=> In(x, p \o q) \/ In(x, i))
    BY <1>2, <1>4, ConcatProperties, InConcat
  <1>6. /\ ((p \o q) \o i) \o r \in Seq(X)
        /\ In(x, ((p \o q) \o i) \o r) <=> In(x, (p \o q) \o i) \/ In(x, r)
    BY <1>r, <1>5, ConcatProperties, InConcat
  <1>7. In(x, all) <=> In(x, ((p \o q) \o i) \o r) \/ In(x, k)
    BY <1>2, <1>6, InConcat
  <1>8. In(x, all) <=> In(x, p) \/ In(x, q) \/ In(x, i) \/ In(x, r) \/ In(x, k)
    BY <1>4, <1>5, <1>6, <1>7
  <1> HIDE DEF all
  <1>9. /\ IsWritten(x, b) => In(x, all)
        /\ In(x, all) => x.table = "global" \/ IsWritten(x, b)
    BY <1>8, <1>p, <1>q, <1>i, <1>r, <1>k DEF IsWritten, y, f, e
  <1> QED BY <1>1, <1>9

-----------------------------------------------------------------------------
(* What the queries return from such a file                                *)

\* The rows of the highest version decide.
LEMMA GetTop ==
  ASSUME NEW d, NEW t, NEW k, NEW v, NEW r \in d[t], r.key = k, r.version <= v,
         \A x \in d[t] : x.key = k /\ x.version <= v =>
             x.version <= r.version /\ (r.version <= x.version => x.value = r.value),
         r.version <= r.version
  PROVE  Get(d, t, k, v) = {r.value}
  <1> DEFINE found == {x \in d[t] : x.key = k /\ x.version <= v}
             last == {x \in found : \A y \in found : y.version <= x.version}
  <1>1. Get(d, t, k, v) = {x.value : x \in last}
    BY DEF Get
  <1>2. r \in last
    OBVIOUS
  <1>3. \A x \in last : x.value = r.value
    BY <1>2
  <1> HIDE DEF last
  <1> QED BY <1>1, <1>2, <1>3

LEMMA GetNone ==
  ASSUME NEW d, NEW t, NEW k, NEW v, \A x \in d[t] : ~(x.key = k /\ x.version <= v)
  PROVE  Get(d, t, k, v) = {}
  BY DEF Get

\* A row of the rolled back tables, other than the registers, belongs to the block that
\* has its key.
LEMMA GetOfBlock ==
  ASSUME NEW d, NEW C, NEW n, FileIs(d, C, n, {}), NEW b \in C, NEW s, IsWritten(s, b),
         s.table \in RolledBackTables, s.table # "ledger"
  PROVE  Get(d, s.table, s.key, 0) = {s.value}
  <1>1. IsChain(C, n) /\ OnlyChain(d, C) /\ AllOfChain(d, C, n, {})
    BY DEF FileIs
  <1> DEFINE r == RowOf(s, b.height)
  <1>2. r.key = s.key /\ r.version = 0 /\ r.value = s.value
    BY WrittenFields DEF RowOf
  <1>3. r \in d[s.table]
    BY <1>1 DEF AllOfChain, Forgotten
  <1> HIDE DEF r
  <1>4. ASSUME NEW x \in d[s.table], x.key = s.key
        PROVE  x.version = 0 /\ x.value = s.value
    <2>1. PICK c, u : c \in C /\ IsWritten(u, c) /\ u.table = s.table /\ x = RowOf(u, c.height)
      BY <1>1 DEF OnlyChain
    <2>2. x.key = u.key /\ x.version = u.version /\ x.value = u.value
      BY <2>1 DEF RowOf
    <2>3. c = b
      BY <1>1, <1>4, <2>1, <2>2, KeyOwner
    <2>4. u.version = 0
      BY <2>1, WrittenFields
    <2>5. u.value = s.value
      BY <1>4, <2>1, <2>2, <2>3, SameStatement
    <2> QED BY <2>2, <2>4, <2>5
  <1>5. Get(d, s.table, s.key, 0) = {r.value}
    <2>1. \A x \in d[s.table] : x.key = s.key /\ x.version <= 0 =>
             x.version <= r.version /\ (r.version <= x.version => x.value = r.value)
      BY <1>2, <1>4
    <2>2. r.version <= 0 /\ r.version <= r.version
      BY <1>2
    <2> QED BY <1>2, <1>3, <2>1, <2>2, GetTop
  <1> QED BY <1>2, <1>5

\* No block of the chain has the key: the table has none either.
LEMMA GetOfNobody ==
  ASSUME NEW d, NEW C, NEW n, FileIs(d, C, n, {}), NEW t \in RolledBackTables, NEW k, NEW v,
         \A b \in C : \A s : IsWritten(s, b) /\ s.table = t => s.key # k \/ ~(s.version <= v)
  PROVE  Get(d, t, k, v) = {}
  <1>1. OnlyChain(d, C)
    BY DEF FileIs
  <1>2. ASSUME NEW x \in d[t], x.key = k, x.version <= v PROVE FALSE
    <2>1. PICK c, u : c \in C /\ IsWritten(u, c) /\ u.table = t /\ x = RowOf(u, c.height)
      BY <1>1 DEF OnlyChain
    <2>2. x.key = u.key /\ x.version = u.version
      BY <2>1 DEF RowOf
    <2> QED BY <1>2, <2>1, <2>2
  <1> QED BY <1>2, GetNone

\* The register of a transaction has its one value from the block that holds it.
LEMMA GetOfItem ==
  ASSUME NEW d, NEW C, NEW n, FileIs(d, C, n, {}), NEW item \in Items, NEW h \in Nat
  PROVE  /\ \A b \in C : b.item = item /\ b.height <= h => Get(d, "ledger", item, h) = {b.id}
         /\ (\A b \in C : b.item # item \/ b.height > h) => Get(d, "ledger", item, h) = {}
  <1>1. IsChain(C, n) /\ OnlyChain(d, C) /\ AllOfChain(d, C, n, {}) /\ C \subseteq Blocks
    BY DEF FileIs, IsChain
  <1>2. item # Flag /\ item # Empty /\ "ledger" \in RolledBackTables
    BY StoreAssumption DEF RolledBackTables
  <1>3. ASSUME NEW c \in C, NEW u, IsWritten(u, c), u.table = "ledger", u.key = item
        PROVE  c.item = item /\ u.version = c.height /\ u.value = c.id
    BY <1>2, <1>3, WrittenFields
  <1>4. ASSUME NEW b \in C, b.item = item, b.height <= h
        PROVE  Get(d, "ledger", item, h) = {b.id}
    <2> DEFINE s == Statement("ledger", b.item, b.height, b.id)
               r == RowOf(s, b.height)
    <2>1. IsWritten(s, b) /\ s.table = "ledger" /\ s.key = item /\ s.version = b.height /\ s.value = b.id
      BY <1>4 DEF IsWritten, Statement
    <2>2. r.key = item /\ r.version = b.height /\ r.value = b.id
      BY <2>1 DEF RowOf
    <2> HIDE DEF s
    <2>3. r \in d["ledger"]
      BY <1>1, <1>2, <2>1 DEF AllOfChain, Forgotten
    <2> HIDE DEF r
    <2>4. \A x \in d["ledger"] : x.key = item => x.version = b.height /\ x.value = b.id
      <3> SUFFICES ASSUME NEW x \in d["ledger"], x.key = item
                   PROVE  x.version = b.height /\ x.value = b.id
        OBVIOUS
      <3>1. PICK c, u : c \in C /\ IsWritten(u, c) /\ u.table = "ledger" /\ x = RowOf(u, c.height)
        BY <1>1, <1>2 DEF OnlyChain
      <3>2. x.key = u.key /\ x.version = u.version /\ x.value = u.value
        BY <3>1 DEF RowOf
      <3>3. c.item = item /\ u.version = c.height /\ u.value = c.id
        BY <1>3, <3>1, <3>2
      <3>4. c = b
        BY <1>1, <1>4, <3>1, <3>3 DEF IsChain
      <3> QED BY <3>2, <3>3, <3>4
    <2>5. b.height <= b.height /\ b.height \in Nat
      BY <1>1 DEF Blocks
    <2>6. \A x \in d["ledger"] : x.key = item /\ x.version <= h =>
             x.version <= r.version /\ (r.version <= x.version => x.value = r.value)
      BY <2>2, <2>4, <2>5
    <2> QED BY <1>4, <2>2, <2>3, <2>5, <2>6, GetTop
  <1>5. ASSUME \A b \in C : b.item # item \/ b.height > h
        PROVE  Get(d, "ledger", item, h) = {}
    <2>1. \A b \in C : b.height > h => ~(b.height <= h)
      BY <1>1 DEF Blocks
    <2>2. \A b \in C : \A s : IsWritten(s, b) /\ s.table = "ledger" => s.key # item \/ ~(s.version <= h)
      BY <1>3, <1>5, <2>1
    <2> QED BY <1>2, <2>2, GetOfNobody
  <1> QED BY <1>4, <1>5

-----------------------------------------------------------------------------
(* The other steps                                                         *)

\* A chain that grows by one block, all of whose rows are still to be written.
LEMMA ChainGrows ==
  ASSUME StoreInv, NEW C, FileIs(db, C, head.height, {}), head \in C,
         NEW b \in Blocks, b.height = head.height + 1, b.id = produced + 1, b.parent = head.id,
         \A c \in C : c.item # b.item \/ b.item \notin Items,
         produced' = produced + 1, backend' = backend,
         NEW pend, \A s : IsWritten(s, b) => s \in pend
  PROVE  \A d : d = db => FileIs(d, C \cup {b}, b.height, pend)'
  <1> DEFINE D == C \cup {b}
             n == head.height
  <1>0. n \in Nat /\ produced \in Nat /\ produced <= produced' /\ head.id \in Nat
    BY DEF StoreInv, TypeOK, Blocks
  <1>1. IsChain(C, n) /\ OnlyChain(db, C) /\ AllOfChain(db, C, n, {}) /\ Leftovers(db, C)
    BY DEF FileIs
  <1>2. C \subseteq Blocks /\ \A c \in C : c.height \in Nat /\ c.id \in Nat /\ c.height <= n /\ c.id <= produced
    BY <1>1 DEF IsChain, Blocks
  <1>3. \A c \in C : c.height # b.height /\ c.id # b.id /\ (c.item = b.item => b.item \notin Items)
    BY <1>0, <1>2
  <1>4. \A c \in C : c.height = n => c = head
    BY <1>1 DEF IsChain
  <1>5. IsChain(D, b.height)'
    <2>1. D \subseteq Blocks /\ Genesis \in D /\ b.height \in Nat
      BY <1>0, <1>1 DEF IsChain
    <2>2. \A c \in D : c.height <= b.height /\ c.id <= produced'
      BY <1>0, <1>2
    <2>3. \A h \in 0..b.height : \E c \in D : c.height = h
      <3> SUFFICES ASSUME NEW h \in 0..b.height PROVE \E c \in D : c.height = h
        OBVIOUS
      <3>1. CASE h \in 0..n
        BY <1>1, <3>1 DEF IsChain
      <3>2. CASE h = b.height
        BY <3>2
      <3> QED BY <1>0, <3>1, <3>2
    <2>4. \A x, c \in D : x.height = c.height \/ x.id = c.id \/ (x.item = c.item /\ x.item \in Items)
                          => x = c
      BY <1>1, <1>3 DEF IsChain
    <2>5. \A x, c \in D : x.height = c.height + 1 => x.parent = c.id
      <3> SUFFICES ASSUME NEW x \in D, NEW c \in D, x.height = c.height + 1 PROVE x.parent = c.id
        OBVIOUS
      <3>1. CASE x \in C /\ c \in C
        BY <1>1, <3>1 DEF IsChain
      <3>2. CASE x = b
        <4>1. c # b /\ c \in C
          BY <1>0, <3>2
        <4>2. c.height = n
          BY <1>0, <1>2, <3>2, <4>1
        <4> QED BY <1>4, <3>2, <4>1, <4>2
      <3>3. CASE x \in C /\ c = b
        BY <1>0, <1>2, <3>3
      <3> QED BY <3>1, <3>2, <3>3
    <2> QED BY <2>1, <2>2, <2>3, <2>4, <2>5 DEF IsChain, Blocks
  <1> SUFFICES ASSUME NEW d, d = db PROVE FileIs(d, D, b.height, pend)'
    OBVIOUS
  <1>6. \A s, h : RowOf(s, h)' = RowOf(s, h)
    BY DEF RowOf, RowHeight
  <1>7. OnlyChain(d, D)'
    <2>1. OnlyChain(d, D)
      BY <1>1 DEF OnlyChain
    <2> QED BY <1>6, <2>1 DEF OnlyChain
  <1>8. AllOfChain(d, D, b.height, pend)'
    <2>1. AllOfChain(d, D, b.height, pend)
      BY <1>0, <1>1, <1>2 DEF AllOfChain, Forgotten
    <2> QED BY <1>6, <2>1 DEF AllOfChain, Forgotten
  <1>9. Leftovers(d, D)'
    <2>1. \A k \in 1..produced : k \in 1..(produced') /\ k # b.id
      BY <1>0
    <2> QED BY <1>1, <2>1 DEF Leftovers
  <1>10. Indexed(d, D)'
    <2>1. Indexed(d, C)
      BY DEF FileIs
    <2> QED BY <2>1 DEF Indexed, HasRun
  <1> QED BY <1>5, <1>7, <1>8, <1>9, <1>10 DEF FileIs

\* A transaction that Executable lets through is in no block of the chain.
LEMMA ExecutableIsNew ==
  ASSUME StoreInv, NEW C, FileIs(db, C, head.height, {}), NEW item, Executable(item)
  PROVE  \A c \in C : c.item # item \/ item \notin Items
  <1> SUFFICES ASSUME NEW c \in C, c.item = item, item \in Items PROVE FALSE
    OBVIOUS
  <1>1. CASE item \in Txs
    <2> DEFINE s == Statement("transactions", c.item, 0, c.id)
    <2>1. IsWritten(s, c) /\ s.table = "transactions" /\ s.key = item
      BY DEF IsWritten, Statement
    <2>2. "transactions" \in RolledBackTables
      BY DEF RolledBackTables
    <2> HIDE DEF s
    <2>3. Get(db, "transactions", item, 0) # {}
      BY <2>1, <2>2, GetOfBlock
    <2>4. item \notin Callbacks
      BY <1>1, StoreAssumption
    <2> QED BY <1>1, <2>3, <2>4 DEF Executable, Found
  <1>2. CASE item \in Callbacks
    <2>1. head.height \in Nat /\ c.height <= head.height
      BY DEF StoreInv, TypeOK, Blocks, FileIs, IsChain
    <2>2. Get(db, "ledger", item, head.height) = {c.id}
      BY <2>1, GetOfItem
    <2>3. item \notin Txs
      BY <1>2, StoreAssumption
    <2> QED BY <1>2, <2>2, <2>3 DEF Executable
  <1> QED BY <1>1, <1>2 DEF Items

LEMMA WholeCommit ==
  ASSUME StoreInv, WholeInv, NEW item \in Items \cup {Empty}, Commit(item)
  PROVE  WholeInv'
  <1> DEFINE b == [id |-> produced + 1, height |-> head.height + 1, parent |-> head.id, item |-> item]
             stmts == CommitStatements(db, b) \o IndexStatements(b)
             pend == {stmts[i] : i \in 1..Len(stmts)}
  <1>1. /\ phase = "ready" /\ Executable(item)
        /\ head' = b /\ currentHeight' = b.height /\ todo' = stmts /\ produced' = produced + 1
        /\ phase' = "commit" /\ UNCHANGED <<backend, files, saved, creating, active, torn>>
    BY DEF Commit
  <1>2. /\ b \in Blocks /\ b.height = head.height + 1 /\ b.id = produced + 1 /\ b.parent = head.id
        /\ b.item = item /\ produced \in Nat /\ b # Genesis
    BY DEF StoreInv, TypeOK, Blocks, Genesis
  <1>3. \A s : IsWritten(s, b) => In(s, stmts)
    BY <1>2, CommitWrites
  <1>4. \A s : In(s, stmts) => s.table = "global" \/ IsWritten(s, b)
    BY <1>2, CommitWrites
  <1> HIDE DEF b, stmts
  <1>5. Statements' = pend /\ \A s : s \in pend <=> In(s, stmts)
    BY <1>1 DEF Statements, In
  <1> HIDE DEF pend
  <1>6. PICK C : FileIs(db, C, head.height, {}) /\ head \in C
    BY <1>1 DEF WholeInv
  <1>7. \A c \in C : c.item # b.item \/ b.item \notin Items
    BY <1>1, <1>2, <1>6, ExecutableIsNew
  <1>8. PICK x : x = b
    OBVIOUS
  <1>9. PICK P : P = pend
    OBVIOUS
  <1>10. \A d : d = db => FileIs(d, C \cup {x}, x.height, P)'
    <2>1. /\ x \in Blocks /\ x.height = head.height + 1 /\ x.id = produced + 1 /\ x.parent = head.id
          /\ \A c \in C : c.item # x.item \/ x.item \notin Items
          /\ \A s : IsWritten(s, x) => s \in P
      BY <1>2, <1>3, <1>5, <1>7, <1>8, <1>9
    <2> QED BY <1>1, <1>6, <2>1, ChainGrows
  <1>11. db' = db /\ head' = x /\ Statements' = P
    BY <1>1, <1>5, <1>8, <1>9 DEF db
  <1>12. (\E D : FileIs(db, D, head.height, Statements) /\ head \in D)'
    BY <1>10, <1>11
  <1>13. (\A s \in Statements : s.table = "global" \/ IsWritten(s, head))'
    <2>1. \A s \in P : s.table = "global" \/ IsWritten(s, x)
      BY <1>4, <1>5, <1>8, <1>9
    <2>2. \A s : IsWritten(s, x) => IsWritten(s, head)'
      BY <1>11 DEF IsWritten
    <2> QED BY <1>11, <2>1, <2>2
  <1>14. (\A f \in Files : Complete(files[f]))'
    <2>1. \A d : Complete(d) => Complete(d)'
      BY <1>1, <1>2, ChainStays
    <2> QED BY <1>1, <2>1 DEF WholeInv
  <1> QED BY <1>1, <1>12, <1>13, <1>14 DEF WholeInv

\* The block that a complete file names as the latest is the top of its chain.
LEMMA TopOfFile ==
  ASSUME NEW d, FileOK(d), NEW C, NEW n, FileIs(d, C, n, {}), Names(d, n)
  PROVE  /\ LatestBlocks(d) # {}
         /\ \A b \in LatestBlocks(d) : b.height = n /\ b \in C
  <1>1. IsChain(C, n) /\ OnlyChain(d, C) /\ AllOfChain(d, C, n, {}) /\ n \in 0..n
    BY DEF FileIs, IsChain
  <1>2. PICK b \in C : b.height = n
    BY <1>1 DEF IsChain
  <1>3. Holds(d, b)
    <2> DEFINE s == Statement("blocks", b.height, 0, b)
    <2>1. IsWritten(s, b) /\ s.table = "blocks" /\ s.value = b
      BY DEF IsWritten, Statement
    <2> HIDE DEF s
    <2>2. RowOf(s, b.height) \in d["blocks"] /\ RowOf(s, b.height).value = b
      BY <1>1, <2>1 DEF AllOfChain, Forgotten, RowOf
    <2> QED BY <2>2 DEF Holds
  <1>4. LatestBlocks(d) = {b}
    BY <1>2, <1>3, LatestBlockOfFile
  <1> QED BY <1>2, <1>4

\* The chain that bootstrapping an empty file begins.
LEMMA ChainBegins ==
  ASSUME NEW pend, \A s : IsWritten(s, Genesis) => s \in pend, produced \in Nat
  PROVE  FileIs(NoRows, {Genesis}, 0, pend)
  <1>1. Genesis \in Blocks /\ Genesis.height = 0 /\ Genesis.id = 0
    BY DEF Genesis, Blocks
  <1>2. IsChain({Genesis}, 0)
    BY <1>1 DEF IsChain
  <1>3. \A t \in Tables : NoRows[t] = {}
    BY DEF NoRows
  <1>4. OnlyChain(NoRows, {Genesis}) /\ Leftovers(NoRows, {Genesis}) /\ Indexed(NoRows, {Genesis})
    <2>1. /\ RolledBackTables \subseteq Tables
          /\ {"systemTransactions", "scheduledTransactionBlockIndex"} \subseteq Tables
      BY DEF RolledBackTables, Tables
    <2> QED BY <1>3, <2>1 DEF OnlyChain, Leftovers, Indexed
  <1>5. AllOfChain(NoRows, {Genesis}, 0, pend)
    BY <1>1 DEF AllOfChain
  <1> QED BY <1>2, <1>4, <1>5 DEF FileIs

LEMMA WholeReload ==
  ASSUME StoreInv, WholeInv, Reload
  PROVE  WholeInv'
  <1>1. /\ phase \in {"start", "reload"} /\ UNCHANGED <<backend, files, saved, creating, active, produced, torn>>
        /\ db' = db /\ FileOK(db) /\ active \in Files /\ produced \in Nat
    BY DEF Reload, StoreInv, TypeOK, db
  <1>2. (\A f \in Files : Complete(files[f]))' /\ Complete(db)
    <2>1. \A d : Complete(d) => Complete(d)'
      BY <1>1, ChainStays
    <2>2. \A f \in Files : Complete(files[f])
      BY <1>1 DEF WholeInv
    <2> QED BY <1>1, <2>1, <2>2 DEF db
  <1>3. \A d, C, n, pend : FileIs(d, C, n, pend) => FileIs(d, C, n, pend)'
    BY <1>1, ChainStays
  <1>4. NoRows["global"] = {} /\ NoRows["ledger"] = {}
    BY DEF NoRows, Tables
  <1>5. ASSUME NEW b \in LatestBlocks(db), head' = b, phase' = "ready"
        PROVE  WholeInv'
    <2>1. db # NoRows
      BY <1>1, <1>4, <1>5, LatestBlockOfFile
    <2>2. PICK C, n : FileIs(db, C, n, {}) /\ Names(db, n)
      BY <1>2, <2>1 DEF Complete
    <2>3. b.height = n /\ b \in C
      BY <1>1, <1>5, <2>2, TopOfFile
    <2>4. (\E D : FileIs(db, D, head.height, {}) /\ head \in D)'
      BY <1>1, <1>3, <1>5, <2>2, <2>3
    <2> QED BY <1>2, <1>5, <2>4 DEF WholeInv
  <1>6. LatestBlocks(db) = {} => db = NoRows
    BY <1>1, <1>2, TopOfFile DEF Complete
  <1>7. ASSUME LatestBlocks(db) = {}, head' = Genesis, todo' = CommitStatements(db, Genesis), phase' = "commit"
        PROVE  WholeInv'
    <2> DEFINE stmts == CommitStatements(db, Genesis)
    <2>0. Genesis.item \notin Items /\ Genesis.height = 0
      BY StoreAssumption DEF Genesis
    <2>1. stmts \o IndexStatements(Genesis) = stmts
      <3>1. IndexStatements(Genesis) = <<>>
        BY <2>0 DEF IndexStatements, Items
      <3>2. stmts \in Seq(StatementsFor(Genesis))
        BY CommitBegins
      <3> HIDE DEF stmts
      <3> QED BY <3>1, <3>2, ConcatEmptySeq
    <2>2. \A s : IsWritten(s, Genesis) => In(s, stmts)
      BY <2>0, <2>1, CommitWrites
    <2>3. \A s : In(s, stmts) => s.table = "global" \/ IsWritten(s, Genesis)
      BY <2>0, <2>1, CommitWrites
    <2>a. todo' = stmts
      BY <1>7
    <2> HIDE DEF stmts
    <2>4. PICK P : P = Statements'
      OBVIOUS
    <2>5. \A s : s \in P <=> In(s, stmts)
      BY <2>4, <2>a DEF Statements, In
    <2>6. FileIs(NoRows, {Genesis}, 0, P)
      BY <1>1, <2>2, <2>5, ChainBegins
    <2>7. (\E D : FileIs(db, D, head.height, Statements) /\ head \in D)'
      <3>1. FileIs(NoRows, {Genesis}, 0, P)'
        BY <1>3, <2>6
      <3>2. db' = NoRows /\ head' = Genesis /\ head'.height = 0
        BY <1>1, <1>6, <1>7, <2>0
      <3> QED BY <2>4, <3>1, <3>2
    <2>8. (\A s \in Statements : s.table = "global" \/ IsWritten(s, head))'
      <3>1. \A s : IsWritten(s, Genesis) => IsWritten(s, head)'
        BY <1>7 DEF IsWritten
      <3> QED BY <2>3, <2>4, <2>5, <3>1
    <2> QED BY <1>2, <1>7, <2>7, <2>8 DEF WholeInv
  <1>8. LatestBlocks(db) = {} => BootstrapOutcomes(db) = {TRUE}
    BY <1>4, <1>6 DEF BootstrapOutcomes
  <1>9. CASE LatestBlocks(db) # {}
    BY <1>5, <1>9 DEF Reload
  <1>10. CASE LatestBlocks(db) = {}
    <2>1. PICK ok \in BootstrapOutcomes(db) :
             /\ head' = IF ok THEN Genesis ELSE head
             /\ todo' = IF ok THEN CommitStatements(db, Genesis) ELSE <<>>
             /\ phase' = IF ok THEN "commit" ELSE IF phase = "start" THEN "down" ELSE "ready"
      BY <1>10 DEF Reload
    <2>2. ok = TRUE
      BY <1>8, <1>10, <2>1
    <2>3. head' = Genesis /\ todo' = CommitStatements(db, Genesis) /\ phase' = "commit"
      BY <2>1, <2>2
    <2> QED BY <1>7, <1>10, <2>3
  <1> QED BY <1>9, <1>10

\* A rollback leaves the lower part of the chain.
LEMMA ChainShrinks ==
  ASSUME NEW d, NEW C, NEW n, FileIs(d, C, n, {}), backend = "sqlite", NEW h \in Nat, h <= n
  PROVE  FileIs(DeleteAbove(d, h), {b \in C : b.height <= h}, h, {})
  <1> DEFINE e == DeleteAbove(d, h)
             D == {b \in C : b.height <= h}
  <1>1. /\ IsChain(C, n) /\ OnlyChain(d, C) /\ AllOfChain(d, C, n, {}) /\ Leftovers(d, C)
        /\ n \in Nat /\ C \subseteq Blocks /\ Genesis \in C
    BY DEF FileIs, IsChain
  <1>2. /\ \A t \in RolledBackTables : \A r : r \in e[t] <=> r \in d[t] /\ r.height <= h
        /\ \A t \in Tables \ RolledBackTables : e[t] = d[t]
    <2>1. RolledBackTables \subseteq Tables
      BY DEF RolledBackTables, Tables
    <2> QED BY <2>1 DEF DeleteAbove
  <1> HIDE DEF e
  <1>3. IsChain(D, h)
    <2>1. Genesis \in D
      BY <1>1 DEF Genesis
    <2>2. \A b \in D : b.height <= h /\ b.id <= produced
      BY <1>1 DEF IsChain
    <2>3. \A k \in 0..h : \E b \in D : b.height = k
      <3>1. \A k \in 0..h : k \in 0..n
        BY <1>1
      <3> QED BY <1>1, <3>1 DEF IsChain
    <2>4. \A b, c \in D : b.height = c.height \/ b.id = c.id \/ (b.item = c.item /\ b.item \in Items)
                          => b = c
      BY <1>1 DEF IsChain
    <2>5. \A b, c \in D : b.height = c.height + 1 => b.parent = c.id
      BY <1>1 DEF IsChain
    <2> QED BY <1>1, <2>1, <2>2, <2>3, <2>4, <2>5 DEF IsChain
  <1>4. \A s, b : IsWritten(s, b) => RowOf(s, b.height).height = b.height
    BY WrittenFields DEF RowOf, RowHeight
  <1>5. OnlyChain(e, D)
    <2> SUFFICES ASSUME NEW t \in RolledBackTables, NEW r \in e[t]
                 PROVE  \E b \in D : \E s : IsWritten(s, b) /\ s.table = t /\ r = RowOf(s, b.height)
      BY DEF OnlyChain
    <2>1. PICK b, s : b \in C /\ IsWritten(s, b) /\ s.table = t /\ r = RowOf(s, b.height)
      BY <1>1, <1>2 DEF OnlyChain
    <2>2. b \in D
      BY <1>2, <1>4, <2>1
    <2> QED BY <2>1, <2>2
  <1>6. AllOfChain(e, D, h, {})
    <2> SUFFICES ASSUME NEW b \in D, NEW s, IsWritten(s, b)
                 PROVE  RowOf(s, b.height) \in e[s.table]
      BY DEF AllOfChain
    <2>1. RowOf(s, b.height) \in d[s.table] /\ s.table \in Tables
      BY <1>1, WrittenFields DEF AllOfChain, Forgotten
    <2> QED BY <1>2, <1>4, <2>1
  <1>7. Leftovers(e, D)
    <2>1. {"systemTransactions", "scheduledTransactionBlockIndex"} \subseteq Tables \ RolledBackTables
      BY DEF Tables, RolledBackTables
    <2> QED BY <1>1, <1>2, <2>1 DEF Leftovers
  <1>8. Indexed(e, D)
    <2>0. /\ {"systemTransactions", "scheduledTransactionBlockIndex"} \subseteq Tables \ RolledBackTables
          /\ Indexed(d, C)
      BY DEF Tables, RolledBackTables, FileIs
    <2>1. ASSUME NEW b \in C \ {Genesis} PROVE HasRun(d, b.id, b.item)
      <3> DEFINE s == Statement("systemTransactions", b.id, 0, b.item)
                 x == RowOf(s, b.height)
      <3>1. IsWritten(s, b) /\ s.table = "systemTransactions" /\ s.key = b.id /\ s.value = b.item
        BY <2>1 DEF IsWritten, Statement
      <3> HIDE DEF s
      <3>2. x \in d["systemTransactions"] /\ x.key = b.id /\ x.value = b.item
        BY <1>1, <3>1 DEF AllOfChain, Forgotten, RowOf
      <3> QED BY <3>2 DEF HasRun
    <2>2. \A r \in d["scheduledTransactionBlockIndex"] : HasRun(d, r.value, r.key)
      BY <2>0, <2>1 DEF Indexed
    <2> QED BY <1>2, <2>0, <2>2 DEF Indexed, HasRun
  <1> QED BY <1>3, <1>5, <1>6, <1>7, <1>8 DEF FileIs, e

LEMMA WholeRollback ==
  ASSUME StoreInv, WholeInv, NEW h \in 0..MaxBlocks, RollbackToBlockHeight(h), torn' = {}
  PROVE  WholeInv'
  <1> DEFINE e == DeleteAbove(db, h)
  <1>1. /\ backend = "sqlite" /\ phase = "ready" /\ h \in Nat
        /\ files' = [files EXCEPT ![active] = e] /\ currentHeight' = h /\ phase' = "rollback"
        /\ Found(db, "blocks", h)
        /\ UNCHANGED <<backend, active, produced>>
    BY StoreAssumption DEF RollbackToBlockHeight, db
  <1>2. FileOK(db) /\ active \in Files /\ DOMAIN files = Files /\ produced \in Nat
    BY DEF StoreInv, TypeOK, db
  <1>3. PICK C : FileIs(db, C, head.height, {})
    BY <1>1 DEF WholeInv
  <1>4. h <= head.height
    <2>1. PICK r \in db["blocks"] : r.key = h
      BY <1>1, <1>2, BlocksOfFile DEF Found, HasHeight
    <2>2. "blocks" \in RolledBackTables
      BY DEF RolledBackTables
    <2>3. PICK b, s : b \in C /\ IsWritten(s, b) /\ s.table = "blocks" /\ r = RowOf(s, b.height)
      BY <1>3, <2>1, <2>2 DEF FileIs, OnlyChain
    <2>4. s.key = b.height /\ r.key = s.key
      BY <2>3, WrittenFields DEF RowOf
    <2> QED BY <1>3, <2>1, <2>3, <2>4 DEF FileIs, IsChain
  <1>5. FileIs(e, {b \in C : b.height <= h}, h, {})
    BY <1>1, <1>3, <1>4, ChainShrinks
  <1>6. db' = e /\ \A f \in Files : f # active => files'[f] = files[f]
    BY <1>1, <1>2 DEF db
  <1> HIDE DEF e
  <1>7. (\E D : FileIs(db, D, currentHeight, {}))'
    <2>1. \A d, D, n, pend : FileIs(d, D, n, pend) => FileIs(d, D, n, pend)'
      BY <1>1, <1>2, ChainStays
    <2>2. PICK D : FileIs(e, D, h, {})
      BY <1>5
    <2> QED BY <1>1, <1>6, <2>1, <2>2
  <1>8. (\A f \in Files : f = active \/ Complete(files[f]))'
    <2>1. \A d : Complete(d) => Complete(d)'
      BY <1>1, <1>2, ChainStays
    <2> QED BY <1>1, <1>6, <2>1 DEF WholeInv
  <1> QED BY <1>1, <1>7, <1>8 DEF WholeInv

LEMMA WholeSnapshot ==
  ASSUME StoreInv, WholeInv, NEW name \in SnapshotNames,
         SnapshotCreate(name) \/ CreateSnapshot(name) \/ LoadSnapshot(name)
  PROVE  WholeInv'
  <1>1. /\ phase = "ready" /\ name \in Files /\ DOMAIN files = Files /\ active \in Files /\ produced \in Nat
    BY DEF StoreInv, TypeOK, SnapshotCreate, CreateSnapshot, LoadSnapshot, Files
  <1>2. UNCHANGED <<backend, currentHeight, todo, head, produced, torn>>
    BY DEF SnapshotCreate, CreateSnapshot, LoadSnapshot
  <1>3. \A d : Complete(d) => Complete(d)'
    BY <1>1, <1>2, ChainStays
  <1>4. \A f \in Files : Complete(files[f])
    BY <1>1 DEF WholeInv
  <1>5. CASE UNCHANGED <<files, active, phase>>
    <2>1. (\A f \in Files : Complete(files[f]))'
      BY <1>3, <1>4, <1>5
    <2>2. \A d, D, n, pend : FileIs(d, D, n, pend) => FileIs(d, D, n, pend)'
      BY <1>1, <1>2, ChainStays
    <2>3. (\E C : FileIs(db, C, head.height, {}) /\ head \in C)'
      <3>1. PICK C : FileIs(db, C, head.height, {}) /\ head \in C
        BY <1>1 DEF WholeInv
      <3>2. db' = db /\ head' = head
        BY <1>2, <1>5 DEF db
      <3> QED BY <2>2, <3>1, <3>2
    <2> QED BY <1>1, <1>5, <2>1, <2>3 DEF WholeInv
  <1>6. CASE phase' = "reload" /\ files' = [files EXCEPT ![name] = db]
    <2>1. (\A f \in Files : Complete(files[f]))'
      BY <1>1, <1>3, <1>4, <1>6 DEF db
    <2> QED BY <1>6, <2>1 DEF WholeInv
  <1>7. CASE phase' = "reload" /\ files' = files
    <2>1. (\A f \in Files : Complete(files[f]))'
      BY <1>3, <1>4, <1>7
    <2> QED BY <1>7, <2>1 DEF WholeInv
  <1> QED BY <1>5, <1>6, <1>7 DEF SnapshotCreate, CreateSnapshot, LoadSnapshot

LEMMA WholeStop ==
  ASSUME StoreInv, WholeInv, Stop \/ New, torn' = {}
  PROVE  WholeInv'
  <1>1. /\ phase \notin {"commit", "rollback"} /\ phase' \in {"down", "start"} /\ produced \in Nat
        /\ UNCHANGED <<backend, files, produced>>
    BY DEF Stop, New, StoreInv, TypeOK
  <1>2. \A d : Complete(d) => Complete(d)'
    BY <1>1, ChainStays
  <1>3. (\A f \in Files : Complete(files[f]))'
    BY <1>1, <1>2 DEF WholeInv
  <1> QED BY <1>1, <1>3 DEF WholeInv

LEMMA WholeInvInit == ASSUME Init PROVE WholeInv
  <1>1. files = [f \in Files |-> NoRows] /\ phase = "down"
    BY DEF Init
  <1>2. \A f \in Files : Complete(files[f])
    BY <1>1 DEF Complete
  <1> QED BY <1>1, <1>2 DEF WholeInv

LEMMA WholeInvStep ==
  ASSUME StoreInv, torn = {} => WholeInv, [Next]_vars
  PROVE  torn' = {} => WholeInv'
  <1> SUFFICES ASSUME torn' = {} PROVE WholeInv'
    OBVIOUS
  <1>1. torn = {}
    BY DEF Next, vars, Commit, Execute, Reload, RollbackToBlockHeight, SnapshotCreate, CreateSnapshot,
           LoadSnapshot, Stop, New
  <1>2. CASE UNCHANGED vars
    <2>1. UNCHANGED <<backend, files, active, currentHeight, phase, todo, head, produced>>
      BY <1>2 DEF vars
    <2>2. produced \in Nat /\ db' = db /\ Statements' = Statements
      BY <2>1 DEF StoreInv, TypeOK, db, Statements
    <2>3. \A d, D, n, pend : FileIs(d, D, n, pend) => FileIs(d, D, n, pend)'
      BY <2>1, <2>2, ChainStays
    <2>4. \A d : Complete(d) => Complete(d)'
      BY <2>1, <2>2, ChainStays
    <2>5. (\A f \in Files : (f = active /\ phase \in {"commit", "rollback"}) \/ Complete(files[f]))'
      BY <1>1, <2>1, <2>4 DEF WholeInv
    <2>6. (phase = "ready" => \E C : FileIs(db, C, head.height, {}) /\ head \in C)'
      BY <1>1, <2>1, <2>2, <2>3 DEF WholeInv
    <2>7. (phase = "commit" => \E C : FileIs(db, C, head.height, Statements) /\ head \in C)'
      BY <1>1, <2>1, <2>2, <2>3 DEF WholeInv
    <2>8. (phase = "commit" => \A s \in Statements : s.table = "global" \/ IsWritten(s, head))'
      BY <1>1, <2>1, <2>2 DEF WholeInv, IsWritten
    <2>9. (phase = "rollback" => \E C : FileIs(db, C, currentHeight, {}))'
      BY <1>1, <2>1, <2>2, <2>3 DEF WholeInv
    <2> QED BY <2>5, <2>6, <2>7, <2>8, <2>9 DEF WholeInv
  <1> QED BY <1>1, <1>2, WholeCommit, WholeExecute, WholeReload, WholeRollback, WholeSnapshot, WholeStop DEF Next

\* What a store in which no call was cut short holds, in every behaviour.
LEMMA WholeInvariant == Spec => [](StoreInv /\ (torn = {} => WholeInv))
  <1>1. Init => StoreInv /\ (torn = {} => WholeInv)
    BY StoreInvInit, WholeInvInit
  <1>2. StoreInv /\ (torn = {} => WholeInv) /\ [Next]_vars
          => (StoreInv /\ (torn = {} => WholeInv))'
    BY StoreInvStep, WholeInvStep
  <1> QED BY <1>1, <1>2, PTL DEF Spec

-----------------------------------------------------------------------------
(* What readers of a store find in which no call was cut short             *)

UpTo(C, h) == {b \in C : b.height <= h}

\* The blocks that the store returns are those of the chain.
Reads(C) ==
    /\ FileIs(db, C, head.height, {})
    /\ \A b \in C : Get(db, "blocks", b.height, 0) = {b} /\ StoredBlock(b.height) = b
    /\ \A h \in 0..head.height : (\E b \in C : b.height = h) /\ ChainTo(h) = UpTo(C, h)

LEMMA ChainIsRead ==
  ASSUME StoreInv, WholeInv, phase = "ready"
  PROVE  \E C : Reads(C)
  <1>1. PICK C : FileIs(db, C, head.height, {})
    BY DEF WholeInv
  <1>2. head.height \in Nat /\ C \subseteq Blocks /\ "blocks" \in RolledBackTables
    BY <1>1 DEF StoreInv, TypeOK, Blocks, FileIs, IsChain, RolledBackTables
  <1>3. ASSUME NEW b \in C PROVE Get(db, "blocks", b.height, 0) = {b}
    <2> DEFINE s == Statement("blocks", b.height, 0, b)
    <2>1. IsWritten(s, b) /\ s.table = "blocks" /\ s.key = b.height /\ s.value = b
      BY DEF IsWritten, Statement
    <2> HIDE DEF s
    <2> QED BY <1>1, <1>2, <2>1, GetOfBlock
  <1>4. \A b \in C : StoredBlock(b.height) = b
    BY <1>3 DEF StoredBlock
  <1>5. \A h \in 0..head.height : \E b \in C : b.height = h
    BY <1>1 DEF FileIs, IsChain
  <1>6. ASSUME NEW h \in 0..head.height PROVE ChainTo(h) = UpTo(C, h)
    <2>1. ASSUME NEW g \in 0..h PROVE Found(db, "blocks", g) /\ StoredBlock(g) \in UpTo(C, h)
      <3>1. g \in 0..head.height /\ g <= h
        BY <1>2
      <3>2. PICK b \in C : b.height = g
        BY <1>5, <3>1
      <3> QED BY <1>3, <1>4, <3>1, <3>2 DEF Found, UpTo
    <2>2. ASSUME NEW b \in UpTo(C, h) PROVE b.height \in 0..h /\ b = StoredBlock(b.height)
      BY <1>2, <1>4 DEF UpTo, Blocks
    <2>3. {k \in 0..h : Found(db, "blocks", k)} = 0..h
      BY <2>1
    <2>4. ChainTo(h) = {StoredBlock(g) : g \in 0..h}
      BY <2>3 DEF ChainTo
    <2> QED BY <2>1, <2>2, <2>4
  <1> QED BY <1>1, <1>3, <1>4, <1>5, <1>6 DEF Reads

\* The register that every block writes: where its history is kept, and at the head.
LEMMA GetOfFlag ==
  ASSUME NEW d, NEW C, NEW n, FileIs(d, C, n, {}), NEW h \in 0..n, backend # "redis" \/ h = n
  PROVE  Get(d, "ledger", Flag, h) = {FlagAt(h)}
  <1>1. /\ IsChain(C, n) /\ OnlyChain(d, C) /\ AllOfChain(d, C, n, {}) /\ C \subseteq Blocks /\ n \in Nat
        /\ "ledger" \in RolledBackTables
    BY DEF FileIs, IsChain, RolledBackTables
  <1>2. PICK b \in C : b.height = h
    BY <1>1 DEF IsChain
  <1> DEFINE s == Statement("ledger", Flag, b.height, FlagAt(b.height))
             r == RowOf(s, b.height)
  <1>3. IsWritten(s, b) /\ s.table = "ledger" /\ s.key = Flag /\ s.version = h /\ s.value = FlagAt(h)
    BY <1>2 DEF IsWritten, Statement
  <1> HIDE DEF s
  <1>4. r.key = Flag /\ r.version = h /\ r.value = FlagAt(h)
    BY <1>3 DEF RowOf
  <1>5. r \in d["ledger"]
    <2>1. ~Forgotten(s, b, n)
      BY <1>1, <1>2 DEF Forgotten
    <2> QED BY <1>1, <1>3, <2>1 DEF AllOfChain
  <1> HIDE DEF r
  <1>6. ASSUME NEW x \in d["ledger"], x.key = Flag
        PROVE  x.version \in Nat /\ x.value = FlagAt(x.version)
    <2>1. PICK c, u : c \in C /\ IsWritten(u, c) /\ u.table = "ledger" /\ x = RowOf(u, c.height)
      BY <1>1 DEF OnlyChain
    <2>2. x.key = u.key /\ x.version = u.version /\ x.value = u.value
      BY <2>1 DEF RowOf
    <2>3. u.version = c.height /\ u.value = FlagAt(c.height)
      BY <1>6, <2>1, <2>2, WrittenFields, StoreAssumption
    <2> QED BY <1>1, <2>1, <2>2, <2>3 DEF Blocks
  <1>7. \A x \in d["ledger"] : x.key = Flag /\ x.version <= h =>
             x.version <= r.version /\ (r.version <= x.version => x.value = r.value)
    <2> SUFFICES ASSUME NEW x \in d["ledger"], x.key = Flag, x.version <= h
                 PROVE  x.version <= h /\ (h <= x.version => x.value = FlagAt(h))
      BY <1>4
    <2>1. h <= x.version => x.version = h
      BY <1>6
    <2> QED BY <1>6, <2>1
  <1>8. h <= h
    OBVIOUS
  <1> QED BY <1>4, <1>5, <1>7, <1>8, GetTop

\* The rows that every reader of a block relies on are there.
LEMMA BlockIsWhole ==
  ASSUME NEW C, FileIs(db, C, head.height, {}), NEW b \in C
  PROVE  Whole(b)
  <1>1. /\ IsChain(C, head.height) /\ AllOfChain(db, C, head.height, {}) /\ Leftovers(db, C)
        /\ b \in Blocks
    BY DEF FileIs, IsChain
  <1>2. Get(db, "blockIndex", b.id, 0) = {b.height}
    <2> DEFINE s == Statement("blockIndex", b.id, 0, b.height)
    <2>1. IsWritten(s, b) /\ s.table = "blockIndex" /\ s.key = b.id /\ s.value = b.height
          /\ s.table \in RolledBackTables
      BY DEF IsWritten, Statement, RolledBackTables
    <2> HIDE DEF s
    <2> QED BY <2>1, GetOfBlock
  <1>3. Get(db, "events", b.height, 0) = {b.id}
    <2> DEFINE s == Statement("events", b.height, 0, b.id)
    <2>1. IsWritten(s, b) /\ s.table = "events" /\ s.key = b.height /\ s.value = b.id
          /\ s.table \in RolledBackTables
      BY DEF IsWritten, Statement, RolledBackTables
    <2> HIDE DEF s
    <2> QED BY <2>1, GetOfBlock
  <1>4. ASSUME b # Genesis PROVE Get(db, "systemTransactions", b.id, 0) = {b.item}
    <2> DEFINE s == Statement("systemTransactions", b.id, 0, b.item)
               r == RowOf(s, b.height)
    <2>1. IsWritten(s, b) /\ s.table = "systemTransactions" /\ s.key = b.id /\ s.version = 0 /\ s.value = b.item
      BY <1>4 DEF IsWritten, Statement
    <2> HIDE DEF s
    <2>2. r \in db["systemTransactions"] /\ r.key = b.id /\ r.version = 0 /\ r.value = b.item
      BY <1>1, <2>1 DEF AllOfChain, Forgotten, RowOf
    <2> HIDE DEF r
    <2>3. \A x \in db["systemTransactions"] : x.version = 0 /\ (x.key = b.id => x.value = b.item)
      BY <1>1 DEF Leftovers
    <2>4. \A x \in db["systemTransactions"] : x.key = b.id /\ x.version <= 0 =>
             x.version <= r.version /\ (r.version <= x.version => x.value = r.value)
      BY <2>2, <2>3
    <2>5. r.version <= 0 /\ r.version <= r.version
      BY <2>2
    <2> QED BY <2>2, <2>4, <2>5, GetTop
  <1>5. ASSUME b.item # Empty
        PROVE  Get(db, "ledger", b.item, b.height) = {b.id} /\ Found(db, "transactions", b.item)
    <2>1. b.item \in Items /\ b.height \in Nat /\ b.height <= b.height
      BY <1>1, <1>5 DEF Blocks
    <2>2. Get(db, "ledger", b.item, b.height) = {b.id}
      BY <2>1, GetOfItem
    <2> DEFINE s == Statement("transactions", b.item, 0, b.id)
    <2>3. IsWritten(s, b) /\ s.table = "transactions" /\ s.key = b.item /\ s.table \in RolledBackTables
      BY <2>1 DEF IsWritten, Statement, RolledBackTables
    <2> HIDE DEF s
    <2>4. Get(db, "transactions", b.item, 0) # {}
      BY <2>3, GetOfBlock
    <2> QED BY <2>2, <2>4 DEF Found
  <1> QED BY <1>2, <1>3, <1>4, <1>5 DEF Whole

\* The identifiers of the blocks of a chain that hold a transaction: at most one.
LEMMA HoldersOf ==
  ASSUME NEW C, NEW n, IsChain(C, n), NEW item \in Items, NEW h
  PROVE  /\ \A b \in UpTo(C, h) : b.item = item =>
               {x.id : x \in {c \in UpTo(C, h) : c.item = item}} = {b.id}
         /\ (\A b \in UpTo(C, h) : b.item # item) =>
               {x.id : x \in {c \in UpTo(C, h) : c.item = item}} = {}
  <1> DEFINE S == {c \in UpTo(C, h) : c.item = item}
  <1>1. ASSUME NEW b \in UpTo(C, h), b.item = item PROVE {x.id : x \in S} = {b.id}
    <2>1. b \in S
      BY <1>1
    <2>2. \A c \in S : c = b
      BY <1>1 DEF UpTo, IsChain
    <2> HIDE DEF S
    <2> QED BY <2>1, <2>2
  <1>2. ASSUME \A b \in UpTo(C, h) : b.item # item PROVE {x.id : x \in S} = {}
    <2>1. S = {}
      BY <1>2
    <2> HIDE DEF S
    <2> QED BY <2>1
  <1> QED BY <1>1, <1>2

\* Each height up to the head holds exactly one block, on top of the block below, with its
\* index, events, system transactions, transactions and registers, after any number of commits, rollbacks,
\* snapshots and restarts: only a call that was cut short leaves a block in parts.
THEOREM StoredBlocksAreWhole == Spec => []BlocksAreWhole
  <1>1. ASSUME StoreInv, torn = {} => WholeInv PROVE BlocksAreWhole
    <2> SUFFICES ASSUME torn = {}, phase = "ready", NEW h \in 0..head.height
                 PROVE  /\ Cardinality(Get(db, "blocks", h, 0)) = 1
                        /\ StoredBlock(h).height = h /\ Whole(StoredBlock(h))
                        /\ h > 0 => StoredBlock(h).parent = StoredBlock(h - 1).id
      BY DEF BlocksAreWhole, CommitIsAtomic
    <2>1. PICK C : Reads(C)
      BY <1>1, ChainIsRead
    <2>2. PICK b \in C : b.height = h
      BY <2>1 DEF Reads
    <2>3. Get(db, "blocks", h, 0) = {b} /\ StoredBlock(h) = b
      BY <2>1, <2>2 DEF Reads
    <2>4. Cardinality({b}) = 1
      BY FS_Singleton
    <2>5. Whole(b)
      BY <2>1, BlockIsWhole DEF Reads
    <2>6. ASSUME h > 0 PROVE b.parent = StoredBlock(h - 1).id
      <3>0. head.height \in Nat
        BY <1>1 DEF StoreInv, TypeOK, Blocks
      <3>1. h - 1 \in 0..head.height
        BY <2>6, <3>0
      <3>2. PICK c \in C : c.height = h - 1
        BY <2>1, <3>1 DEF Reads
      <3>3. StoredBlock(h - 1) = c /\ b.height = c.height + 1
        BY <2>1, <2>2, <3>2 DEF Reads
      <3> QED BY <2>1, <3>3 DEF Reads, FileIs, IsChain
    <2> QED BY <2>2, <2>3, <2>4, <2>5, <2>6
  <1> QED BY <1>1, WholeInvariant, PTL

\* A register read at a height has the value that the chain wrote last up to that height: a
\* rollback removes what the blocks above wrote, and a later block at a freed height does not
\* show through.  With Redis this is so at the head.
THEOREM RegistersFollowTheChain == Spec => []LedgerReadsTheChain
  <1>1. ASSUME StoreInv, torn = {} => WholeInv PROVE LedgerReadsTheChain
    <2> SUFFICES ASSUME torn = {}, phase = "ready", NEW h \in ReadableHeights
                 PROVE  /\ Get(db, "ledger", Flag, h) = {FlagAt(h)}
                        /\ \A item \in Items : Get(db, "ledger", item, h)
                                = {b.id : b \in {c \in ChainTo(h) : c.item = item}}
      BY DEF LedgerReadsTheChain
    <2>1. PICK C : Reads(C)
      BY <1>1, ChainIsRead
    <2>2. head.height \in Nat /\ backend \in {"sqlite", "redis"}
      BY <1>1 DEF StoreInv, TypeOK, Blocks
    <2>3. h \in 0..head.height /\ h \in Nat /\ (backend # "redis" \/ h = head.height)
      BY <2>2 DEF ReadableHeights
    <2>4. Get(db, "ledger", Flag, h) = {FlagAt(h)}
      BY <2>1, <2>3, GetOfFlag DEF Reads
    <2>5. ASSUME NEW item \in Items
          PROVE  Get(db, "ledger", item, h) = {b.id : b \in {c \in ChainTo(h) : c.item = item}}
      <3>1. ChainTo(h) = UpTo(C, h) /\ IsChain(C, head.height)
        BY <2>1, <2>3 DEF Reads, FileIs
      <3>2. \A b \in C : b.height \in Nat
        BY <3>1 DEF IsChain, Blocks
      <3>3. ASSUME NEW b \in UpTo(C, h), b.item = item
            PROVE  Get(db, "ledger", item, h) = {x.id : x \in {c \in UpTo(C, h) : c.item = item}}
        <4>1. Get(db, "ledger", item, h) = {b.id}
          BY <2>1, <2>3, <3>3, GetOfItem DEF Reads, UpTo
        <4>2. {x.id : x \in {c \in UpTo(C, h) : c.item = item}} = {b.id}
          BY <3>1, <3>3, HoldersOf
        <4> QED BY <4>1, <4>2
      <3>4. ASSUME \A b \in UpTo(C, h) : b.item # item
            PROVE  Get(db, "ledger", item, h) = {x.id : x \in {c \in UpTo(C, h) : c.item = item}}
        <4>1. \A b \in C : b.item # item \/ b.height > h
          BY <2>3, <3>2, <3>4 DEF UpTo
        <4>2. Get(db, "ledger", item, h) = {}
          BY <2>1, <2>3, <4>1, GetOfItem DEF Reads
        <4>3. {x.id : x \in {c \in UpTo(C, h) : c.item = item}} = {}
          BY <3>1, <3>4, HoldersOf
        <4> QED BY <4>2, <4>3
      <3> QED BY <3>1, <3>3, <3>4
    <2> QED BY <2>4, <2>5
  <1> QED BY <1>1, WholeInvariant, PTL

\* A user transaction has a result exactly when it is in the chain, and the result is the one
\* of the block that holds it; one that was rolled back has none and can be sent again.
THEOREM ResultsFollowTheChain == Spec => []ResultsMatchTheChain
  <1>1. ASSUME StoreInv, torn = {} => WholeInv PROVE ResultsMatchTheChain
    <2> SUFFICES ASSUME torn = {}, phase = "ready", NEW t \in Txs
                 PROVE  Get(db, "transactionResults", <<t>>, 0)
                          = {b.id : b \in {c \in ChainTo(head.height) : c.item = t}}
      BY DEF ResultsMatchTheChain
    <2> DEFINE n == head.height
    <2>1. PICK C : Reads(C)
      BY <1>1, ChainIsRead
    <2>2. n \in 0..n /\ t \in Items /\ "transactionResults" \in RolledBackTables
      BY <1>1 DEF StoreInv, TypeOK, Blocks, Items, RolledBackTables
    <2>3. ChainTo(n) = UpTo(C, n) /\ IsChain(C, n) /\ \A b \in C : b \in UpTo(C, n)
      BY <2>1, <2>2 DEF Reads, FileIs, IsChain, UpTo
    <2>4. ASSUME NEW b \in C, b.item = t
          PROVE  Get(db, "transactionResults", <<t>>, 0) = {x.id : x \in {c \in UpTo(C, n) : c.item = t}}
      <3> DEFINE s == Statement("transactionResults", <<b.item>>, 0, b.id)
      <3>1. IsWritten(s, b) /\ s.table = "transactionResults" /\ s.key = <<t>> /\ s.value = b.id
        BY <2>4 DEF IsWritten, Statement
      <3> HIDE DEF s
      <3>2. Get(db, "transactionResults", <<t>>, 0) = {b.id}
        BY <2>1, <2>2, <3>1, GetOfBlock DEF Reads
      <3>3. {x.id : x \in {c \in UpTo(C, n) : c.item = t}} = {b.id}
        BY <2>2, <2>3, <2>4, HoldersOf
      <3> QED BY <3>2, <3>3
    <2>5. ASSUME \A b \in C : b.item # t
          PROVE  Get(db, "transactionResults", <<t>>, 0) = {x.id : x \in {c \in UpTo(C, n) : c.item = t}}
      <3>1. ASSUME NEW b \in C, NEW s, IsWritten(s, b), s.table = "transactionResults"
            PROVE  s.key # <<t>>
        <4>1. s.key = <<b.item>> \/ s.key = <<b.id, b.item>>
          BY <3>1, WrittenFields
        <4>2. \A x, y, z : <<x>> # <<y, z>>
          OBVIOUS
        <4>3. \A x, y : <<x>> = <<y>> => x = y
          OBVIOUS
        <4> QED BY <2>5, <4>1, <4>2, <4>3
      <3>2. Get(db, "transactionResults", <<t>>, 0) = {}
        BY <2>1, <2>2, <3>1, GetOfNobody DEF Reads
      <3>3. {x.id : x \in {c \in UpTo(C, n) : c.item = t}} = {}
        <4>1. \A b \in UpTo(C, n) : b.item # t
          BY <2>5 DEF UpTo
        <4> QED BY <2>2, <2>3, <4>1, HoldersOf
      <3> QED BY <3>2, <3>3
    <2> QED BY <2>3, <2>4, <2>5
  <1> QED BY <1>1, WholeInvariant, PTL

\* From the index of a scheduled transaction of the chain one gets to its block and to its
\* result there, or, where it ran in other blocks that were rolled back, to no result: never
\* to that of such a block.
THEOREM ScheduledResultsAreFound == Spec => []ScheduledResultsFound
  <1>1. ASSUME StoreInv, torn = {} => WholeInv PROVE ScheduledResultsFound
    <2> DEFINE n == head.height
               T == "scheduledTransactionBlockIndex"
               Ids(b) == Get(db, T, b.item, 0)
               Runs(b) == {r.key : r \in {x \in db["systemTransactions"] : x.value = b.item}}
    <2> SUFFICES ASSUME torn = {}, phase = "ready", NEW b \in ChainTo(n), b.item \in Callbacks
                 PROVE  /\ b.id \in Ids(b) /\ Found(db, "transactionResults", <<b.id, b.item>>)
                        /\ \A id \in Ids(b) \ {b.id} : ~Found(db, "transactionResults", <<id, b.item>>)
                        /\ Runs(b) = {b.id} => Ids(b) = {b.id}
      BY DEF ScheduledResultsFound
    <2>1. PICK C : Reads(C)
      BY <1>1, ChainIsRead
    <2>2. n \in 0..n /\ b.item \in Items
      BY <1>1 DEF StoreInv, TypeOK, Blocks, Items
    <2>3. /\ \A c : c \in ChainTo(n) <=> c \in C
          /\ IsChain(C, n) /\ AllOfChain(db, C, n, {}) /\ Leftovers(db, C) /\ Indexed(db, C)
      BY <2>1, <2>2 DEF Reads, FileIs, IsChain, UpTo
    <2>4. Found(db, "transactionResults", <<b.id, b.item>>)
      <3> DEFINE s == Statement("transactionResults", <<b.id, b.item>>, 0, b.id)
      <3>1. IsWritten(s, b) /\ s.table = "transactionResults" /\ s.key = <<b.id, b.item>>
            /\ s.table \in RolledBackTables
        BY DEF IsWritten, Statement, RolledBackTables
      <3> HIDE DEF s
      <3>2. Get(db, "transactionResults", <<b.id, b.item>>, 0) # {}
        BY <2>1, <2>3, <3>1, GetOfBlock DEF Reads
      <3> QED BY <3>2 DEF Found
    <2>5. \A v : v \in Ids(b) <=> \E r \in db[T] : r.key = b.item /\ r.value = v
      <3> DEFINE found == {x \in db[T] : x.key = b.item /\ x.version <= 0}
                 last == {x \in found : \A y \in found : y.version <= x.version}
      <3>1. Get(db, T, b.item, 0) = {x.value : x \in last}
        BY DEF Get
      <3>2. \A x : x \in last <=> x \in db[T] /\ x.key = b.item
        BY <2>3 DEF Leftovers
      <3> HIDE DEF last, found
      <3> QED BY <3>1, <3>2
    <2>6. b.id \in Ids(b)
      <3> DEFINE s == Statement(T, b.item, 0, b.id)
                 r == RowOf(s, b.height)
      <3>1. IsWritten(s, b) /\ s.table = T /\ s.key = b.item /\ s.value = b.id
        BY DEF IsWritten, Statement
      <3> HIDE DEF s
      <3>2. r \in db[T] /\ r.key = b.item /\ r.value = b.id
        BY <2>3, <3>1 DEF AllOfChain, Forgotten, RowOf
      <3> HIDE DEF r
      <3> QED BY <2>5, <3>2
    <2>7. \A c \in C : c.item = b.item => c = b
      BY <2>2, <2>3 DEF IsChain
    <2>8. ASSUME NEW id \in Ids(b) \ {b.id} PROVE ~Found(db, "transactionResults", <<id, b.item>>)
      <3>1. ASSUME NEW c \in C, NEW s, IsWritten(s, c), s.table = "transactionResults"
            PROVE  s.key # <<id, b.item>>
        <4>1. s.key = <<c.item>> \/ s.key = <<c.id, c.item>>
          BY <3>1, WrittenFields
        <4>2. \A x, y, z : <<x>> # <<y, z>>
          OBVIOUS
        <4>3. \A x, y, z, w : <<x, y>> = <<z, w>> => x = z /\ y = w
          OBVIOUS
        <4> QED BY <2>7, <2>8, <4>1, <4>2, <4>3
      <3>2. "transactionResults" \in RolledBackTables
        BY DEF RolledBackTables
      <3>3. Get(db, "transactionResults", <<id, b.item>>, 0) = {}
        BY <2>1, <3>1, <3>2, GetOfNobody DEF Reads
      <3> QED BY <3>3 DEF Found
    <2>9. ASSUME Runs(b) = {b.id}, NEW v \in Ids(b) PROVE v = b.id
      <3>1. PICK r \in db[T] : r.key = b.item /\ r.value = v
        BY <2>5, <2>9
      <3>2. CASE \E c \in C \ {Genesis} : c.id = v /\ c.item = b.item
        BY <2>7, <3>2
      <3>3. CASE HasRun(db, v, b.item)
        <4>1. PICK x \in db["systemTransactions"] : x.key = v /\ x.value = b.item
          BY <3>3 DEF HasRun
        <4>2. v \in Runs(b)
          BY <4>1
        <4> QED BY <2>9, <4>2
      <3> QED BY <2>3, <3>1, <3>2, <3>3 DEF Indexed
    <2> HIDE DEF T, Ids, Runs
    <2>10. Runs(b) = {b.id} => Ids(b) = {b.id}
      BY <2>6, <2>9
    <2> QED BY <2>4, <2>6, <2>8, <2>10
  <1> QED BY <1>1, WholeInvariant, PTL

=============================================================================
