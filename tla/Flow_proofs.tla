---------------------------- MODULE Flow_proofs -----------------------------
(***************************************************************************)
(* Placement and routing, for every array, application and configuration:  *)
(* the boards agree, the pool of conflicts is the occupation, and the      *)
(* paths that the search finds are the cheapest.                           *)
(***************************************************************************)
EXTENDS Flow, FiniteSetTheorems, FunctionTheorems, SequenceTheorems, WellFoundedInduction, TLAPS

-----------------------------------------------------------------------------
(* Boards.                                                                  *)

(* The blocks of an array: each lies in the array, and no two share a cord. *)
LEMMA ArchFacts ==
  ASSUME sys \in DOMAIN Systems
  PROVE  /\ \A n \in Node : TypeOf(n) \in DOMAIN Arch.block
         /\ \A t \in DOMAIN Arch.block : Position(t) \subseteq Cord
         /\ \A t, u \in DOMAIN Arch.block : \A c : c \in Position(t) /\ c \in Position(u) => t = u
<1> DEFINE At(t, c) == [type |-> t, cord |-> c]
<1>1. ArchOK(Arch) /\ \A n \in Node : TypeOf(n) \in DOMAIN Arch.block
  BY SystemAssumption DEF SystemAssumption, Arch, Node, TypeOf, Dfg
<1>2. \A t \in DOMAIN Arch.block : \A c \in Position(t) : At(t, c) \in BlocksOf(Arch)
  BY DEF BlocksOf, Position
<1>3. \A t \in DOMAIN Arch.block : \A c \in Position(t) : c \in Cord
  <2>1. \A x \in BlocksOf(Arch) : x.cord \in Cord
    BY <1>1 DEF ArchOK, Cord
  <2> QED  BY <1>2, <2>1
<1>4. ASSUME NEW t \in DOMAIN Arch.block, NEW u \in DOMAIN Arch.block, NEW c,
             c \in Position(t), c \in Position(u)
      PROVE  t = u
  <2>1. \A x, y \in BlocksOf(Arch) : x.cord = y.cord => x = y
    BY <1>1 DEF ArchOK
  <2>2. At(t, c) = At(u, c)
    BY <1>2, <1>4, <2>1
  <2> QED  BY <2>2
<1> QED  BY <1>1, <1>3, <1>4

(* What a good board says of single nodes and cords.                        *)
CordByCord(b) ==
  /\ IsBoard(b) /\ b.sound = TRUE
  /\ b.board \in [Cord -> Node \cup {NoNode}]
  /\ DOMAIN b.table \subseteq Node /\ b.table \in [DOMAIN b.table -> Cord]
  /\ b.used \in [DOMAIN Arch.block -> SUBSET Cord]
  /\ b.unused \in [DOMAIN Arch.block -> SUBSET Cord]
  /\ \A n \in DOMAIN b.table :
       /\ b.table[n] \in Position(TypeOf(n)) /\ b.table[n] \in Cord
       /\ TypeOf(n) \in DOMAIN Arch.block
       /\ b.board[b.table[n]] = n /\ b.table[n] \in b.used[TypeOf(n)]
  /\ \A c \in Cord : b.board[c] # NoNode =>
       b.board[c] \in DOMAIN b.table /\ b.table[b.board[c]] = c
  /\ \A t \in DOMAIN Arch.block : \A c \in b.used[t] :
       /\ c \in Position(t) /\ c \in Cord
       /\ b.board[c] \in DOMAIN b.table /\ b.table[b.board[c]] = c
       /\ TypeOf(b.board[c]) = t
  /\ \A t \in DOMAIN Arch.block : \A c :
       c \in b.unused[t] <=> c \in Position(t) /\ c \notin b.used[t]
  /\ \A t \in DOMAIN Arch.block : \A c \in b.unused[t] :
       c \in Cord /\ b.board[c] = NoNode

LEMMA BoardFacts ==
  ASSUME sys \in DOMAIN Systems, NEW b, BoardOK(b)
  PROVE  CordByCord(b)
<1>1. /\ b.sound = TRUE
      /\ \A n \in DOMAIN b.table : b.table[n] \in Position(TypeOf(n)) /\ b.board[b.table[n]] = n
      /\ \A c \in Cord : b.board[c] # NoNode => b.board[c] \in DOMAIN b.table /\ b.table[b.board[c]] = c
      /\ \A t \in DOMAIN Arch.block :
           b.used[t] = {b.table[n] : n \in {m \in DOMAIN b.table : TypeOf(m) = t}}
      /\ \A t \in DOMAIN Arch.block : b.unused[t] = Position(t) \ b.used[t]
  BY DEF BoardOK, Agrees
<1>2. \A n \in DOMAIN b.table : n \in Node /\ TypeOf(n) \in DOMAIN Arch.block /\ b.table[n] \in Cord
  BY ArchFacts DEF BoardOK
<1>3. \A n \in DOMAIN b.table : b.table[n] \in b.used[TypeOf(n)]
  BY <1>1, <1>2
<1>4. \A t \in DOMAIN Arch.block : \A c \in b.used[t] :
        /\ c \in Position(t) /\ c \in Cord
        /\ b.board[c] \in DOMAIN b.table /\ b.table[b.board[c]] = c
        /\ TypeOf(b.board[c]) = t
  <2> TAKE t \in DOMAIN Arch.block
  <2> TAKE c \in b.used[t]
  <2>1. PICK n \in DOMAIN b.table : TypeOf(n) = t /\ c = b.table[n]
    BY <1>1
  <2> QED  BY <1>1, <1>2, <2>1
<1>5. \A t \in DOMAIN Arch.block : \A c \in b.unused[t] : c \in Cord /\ b.board[c] = NoNode
  <2> TAKE t \in DOMAIN Arch.block
  <2> TAKE c \in b.unused[t]
  <2>1. c \in Position(t) /\ c \in Cord /\ c \notin b.used[t]
    BY <1>1, ArchFacts
  <2>2. SUFFICES ASSUME b.board[c] # NoNode PROVE FALSE
    BY <2>1
  <2>3. b.board[c] \in DOMAIN b.table /\ b.table[b.board[c]] = c
    BY <1>1, <2>1, <2>2
  <2>4. TypeOf(b.board[c]) = t
    BY <1>1, <1>2, <2>1, <2>3, ArchFacts
  <2> QED  BY <1>3, <2>1, <2>3, <2>4
<1>6. \A t \in DOMAIN Arch.block : \A c :
        c \in b.unused[t] <=> c \in Position(t) /\ c \notin b.used[t]
  BY <1>1
<1> QED  BY <1>1, <1>2, <1>3, <1>4, <1>5, <1>6 DEF CordByCord, BoardOK

LEMMA BoardIntro ==
  ASSUME NEW b, CordByCord(b)
  PROVE  BoardOK(b)
<1>1. \A t \in DOMAIN Arch.block :
        b.used[t] = {b.table[n] : n \in {m \in DOMAIN b.table : TypeOf(m) = t}}
  BY DEF CordByCord
<1>2. \A t \in DOMAIN Arch.block : b.unused[t] = Position(t) \ b.used[t]
  BY DEF CordByCord
<1>3. Agrees(b)
  BY <1>1, <1>2 DEF CordByCord, Agrees
<1> QED  BY <1>3 DEF CordByCord, BoardOK

(* The empty board.                                                         *)
LEMMA EmptyBoardOK ==
  ASSUME sys \in DOMAIN Systems
  PROVE  BoardOK(EmptyBoard(sys)) /\ DOMAIN EmptyBoard(sys).table = {}
<1> DEFINE e == EmptyBoard(sys)
<1>1. /\ IsBoard(e) /\ e.sound = TRUE
      /\ e.board = [c \in Cord |-> NoNode] /\ e.table = <<>>
      /\ e.used = [t \in DOMAIN Arch.block |-> {}]
      /\ e.unused = [t \in DOMAIN Arch.block |-> Position(t)]
  BY DEF EmptyBoard, Cord, Arch, Position, IsBoard
<1> HIDE DEF e
<1>2. DOMAIN e.table = {} /\ e.table \in [{} -> Cord]
  BY <1>1
<1>3. /\ e.board \in [Cord -> Node \cup {NoNode}] /\ \A c \in Cord : e.board[c] = NoNode
      /\ e.used \in [DOMAIN Arch.block -> SUBSET Cord]
      /\ e.unused \in [DOMAIN Arch.block -> SUBSET Cord]
      /\ \A t \in DOMAIN Arch.block : e.used[t] = {} /\ e.unused[t] = Position(t)
  BY <1>1, ArchFacts
<1>4. CordByCord(e)
  BY <1>1, <1>2, <1>3, ArchFacts DEF CordByCord
<1> QED  BY <1>2, <1>4, BoardIntro DEF e

(* randomPutNode puts a node that is not on the board on a free cord.       *)
LEMMA PutOK ==
  ASSUME sys \in DOMAIN Systems, NEW b, BoardOK(b),
         NEW n \in Node, n \notin DOMAIN b.table, NEW c \in b.unused[TypeOf(n)]
  PROVE  /\ BoardOK(RandomPutNode(b, n, c))
         /\ DOMAIN RandomPutNode(b, n, c).table = DOMAIN b.table \cup {n}
<1> DEFINE T == TypeOf(n)
           D == DOMAIN b.table \cup {n}
           a == AddUsed(b, T, c)
           r == RandomPutNode(b, n, c)
<1>0. CordByCord(b)
  BY BoardFacts
<1>1. IsBoard(b) /\ c \in b.unused[T] /\ b.sound = TRUE
  BY <1>0 DEF CordByCord
<1>2. r = AddRecord(a, n, c)
  BY DEF RandomPutNode
<1> HIDE DEF T, a, r
<1>3. /\ IsBoard(a) /\ a.board = b.board /\ a.table = b.table /\ a.sound = TRUE
      /\ a.used = [b.used EXCEPT ![T] = @ \cup {c}] /\ a.unused = [b.unused EXCEPT ![T] = @ \ {c}]
  BY <1>1 DEF a, AddUsed, IsBoard
<1>4. /\ IsBoard(r) /\ r.sound = TRUE
      /\ r.board = [b.board EXCEPT ![c] = n]
      /\ r.table = [m \in D |-> IF m = n THEN c ELSE b.table[m]]
      /\ r.used = [b.used EXCEPT ![T] = @ \cup {c}] /\ r.unused = [b.unused EXCEPT ![T] = @ \ {c}]
  BY <1>2, <1>3 DEF AddRecord, IsBoard
<1>5. T \in DOMAIN Arch.block /\ c \in Cord /\ b.board[c] = NoNode /\ c \notin b.used[T]
        /\ c \in Position(T)
  BY <1>0, <1>1, ArchFacts DEF CordByCord, T
<1>6. /\ r.board \in [Cord -> Node \cup {NoNode}]
      /\ DOMAIN r.table = D /\ D \subseteq Node /\ r.table \in [D -> Cord]
      /\ r.used \in [DOMAIN Arch.block -> SUBSET Cord]
      /\ r.unused \in [DOMAIN Arch.block -> SUBSET Cord]
  BY <1>0, <1>4, <1>5 DEF CordByCord
<1>7. /\ \A x \in Cord : r.board[x] = IF x = c THEN n ELSE b.board[x]
      /\ r.table[n] = c /\ \A m \in DOMAIN b.table : r.table[m] = b.table[m]
      /\ \A t \in DOMAIN Arch.block : \A x :
           /\ x \in r.used[t] <=> x \in b.used[t] \/ (t = T /\ x = c)
           /\ x \in r.unused[t] <=> x \in b.unused[t] /\ ~(t = T /\ x = c)
  BY <1>0, <1>4, <1>5 DEF CordByCord
<1>8. \A m \in DOMAIN b.table : b.table[m] # c
  <2> TAKE m \in DOMAIN b.table
  <2>1. SUFFICES ASSUME b.table[m] = c PROVE FALSE
    OBVIOUS
  <2>2. TypeOf(m) = T
    BY <1>0, <1>5, <2>1, ArchFacts DEF CordByCord
  <2> QED  BY <1>0, <1>5, <2>1, <2>2 DEF CordByCord
<1>9. \A m \in D : /\ r.table[m] \in Position(TypeOf(m)) /\ r.table[m] \in Cord
                   /\ TypeOf(m) \in DOMAIN Arch.block
                   /\ r.board[r.table[m]] = m /\ r.table[m] \in r.used[TypeOf(m)]
  <2> TAKE m \in D
  <2>1. CASE m = n
    BY <2>1, <1>5, <1>7 DEF T
  <2>2. CASE m # n
    BY <2>2, <1>0, <1>7, <1>8 DEF CordByCord
  <2> QED  BY <2>1, <2>2
<1>10. \A x \in Cord : r.board[x] # NoNode => r.board[x] \in D /\ r.table[r.board[x]] = x
  BY <1>0, <1>7 DEF CordByCord
<1>11. \A t \in DOMAIN Arch.block : \A x \in r.used[t] :
         /\ x \in Position(t) /\ x \in Cord
         /\ r.board[x] \in D /\ r.table[r.board[x]] = x /\ TypeOf(r.board[x]) = t
  <2> TAKE t \in DOMAIN Arch.block
  <2> TAKE x \in r.used[t]
  <2>1. CASE t = T /\ x = c
    BY <2>1, <1>5, <1>7 DEF T
  <2>2. CASE ~(t = T /\ x = c)
    <3>1. x \in b.used[t] /\ x # c
      BY <2>2, <1>0, <1>5, <1>7, ArchFacts DEF CordByCord
    <3> QED  BY <3>1, <1>0, <1>7 DEF CordByCord
  <2> QED  BY <2>1, <2>2
<1>12. \A t \in DOMAIN Arch.block : \A x :
         x \in r.unused[t] <=> x \in Position(t) /\ x \notin r.used[t]
  BY <1>0, <1>7 DEF CordByCord
<1>13. \A t \in DOMAIN Arch.block : \A x \in r.unused[t] : x \in Cord /\ r.board[x] = NoNode
  <2> TAKE t \in DOMAIN Arch.block
  <2> TAKE x \in r.unused[t]
  <2>1. x \in b.unused[t] /\ ~(t = T /\ x = c)
    BY <1>7
  <2>2. x # c
    BY <2>1, <1>0, <1>5, ArchFacts DEF CordByCord
  <2> QED  BY <2>1, <2>2, <1>0, <1>7 DEF CordByCord
<1>14. CordByCord(r)
  <2> HIDE DEF D
  <2> QED  BY <1>4, <1>6, <1>9, <1>10, <1>11, <1>12, <1>13 DEF CordByCord
<1> QED  BY <1>6, <1>14, BoardIntro DEF r

(* swapOnce with a cord that is used: two nodes of one type change places.  *)
LEMMA ExchangeOK ==
  ASSUME sys \in DOMAIN Systems, NEW b, BoardOK(b),
         NEW n \in DOMAIN b.table, NEW m \in DOMAIN b.table, m # n, TypeOf(m) = TypeOf(n)
  PROVE  /\ BoardOK(Exchange(b, n, b.table[n], m, b.table[m]))
         /\ DOMAIN Exchange(b, n, b.table[n], m, b.table[m]).table = DOMAIN b.table
<1> DEFINE c == b.table[n]
           d == b.table[m]
           D == DOMAIN b.table
           b1 == DeleteRecord(b, n, c)
           b2 == DeleteRecord(b1, m, d)
           b3 == AddRecord(b2, n, d)
           r == Exchange(b, n, c, m, d)
<1>0. CordByCord(b)
  BY BoardFacts
<1>1. IsBoard(b) /\ b.sound = TRUE
  BY <1>0 DEF CordByCord
<1>2. c \in Cord /\ d \in Cord /\ b.board[c] = n /\ b.board[d] = m /\ c # d
  BY <1>0 DEF CordByCord
<1>3. r = AddRecord(b3, m, c)
  BY DEF Exchange
<1>4. c \in Position(TypeOf(n)) /\ d \in Position(TypeOf(n)) /\ c \in b.used[TypeOf(n)]
        /\ d \in b.used[TypeOf(n)] /\ TypeOf(n) \in DOMAIN Arch.block
  BY <1>0 DEF CordByCord
<1> HIDE DEF c, d, b1, b2, b3, r
<1>5. /\ IsBoard(b1) /\ b1.sound = TRUE /\ b1.used = b.used /\ b1.unused = b.unused
      /\ b1.board = [b.board EXCEPT ![c] = NoNode]
      /\ b1.table = [k \in D \ {n} |-> b.table[k]]
  BY <1>1 DEF b1, DeleteRecord, IsBoard
<1>6. /\ IsBoard(b2) /\ b2.sound = TRUE /\ b2.used = b.used /\ b2.unused = b.unused
      /\ b2.board = [b1.board EXCEPT ![d] = NoNode]
      /\ b2.table = [k \in (D \ {n}) \ {m} |-> b1.table[k]]
  BY <1>5 DEF b2, DeleteRecord, IsBoard
<1>7. /\ IsBoard(b3) /\ b3.sound = TRUE /\ b3.used = b.used /\ b3.unused = b.unused
      /\ b3.board = [b2.board EXCEPT ![d] = n]
      /\ b3.table = [k \in ((D \ {n}) \ {m}) \cup {n} |-> IF k = n THEN d ELSE b2.table[k]]
  BY <1>6 DEF b3, AddRecord, IsBoard
<1>8. /\ IsBoard(r) /\ r.sound = TRUE /\ r.used = b.used /\ r.unused = b.unused
      /\ r.board = [b3.board EXCEPT ![c] = m]
      /\ r.table = [k \in (((D \ {n}) \ {m}) \cup {n}) \cup {m} |-> IF k = m THEN c ELSE b3.table[k]]
  BY <1>3, <1>7 DEF AddRecord, IsBoard
<1>9. r.board = [x \in Cord |-> IF x = c THEN m ELSE IF x = d THEN n ELSE b.board[x]]
  BY <1>0, <1>2, <1>5, <1>6, <1>7, <1>8 DEF CordByCord
<1>10. r.table = [k \in D |-> IF k = m THEN c ELSE IF k = n THEN d ELSE b.table[k]]
  <2>1. (((D \ {n}) \ {m}) \cup {n}) \cup {m} = D
    OBVIOUS
  <2> QED  BY <2>1, <1>5, <1>6, <1>7, <1>8
<1>20. IsBoard(r) /\ r.sound = TRUE /\ r.used = b.used /\ r.unused = b.unused
  BY <1>8
<1>11. /\ r.board \in [Cord -> Node \cup {NoNode}]
       /\ DOMAIN r.table = D /\ D \subseteq Node /\ r.table \in [D -> Cord]
       /\ r.used \in [DOMAIN Arch.block -> SUBSET Cord]
       /\ r.unused \in [DOMAIN Arch.block -> SUBSET Cord]
  <2>1. D \subseteq Node /\ b.table \in [D -> Cord] /\ b.board \in [Cord -> Node \cup {NoNode}]
    BY <1>0 DEF CordByCord
  <2>2. n \in Node /\ m \in Node
    BY <2>1
  <2>3. r.board \in [Cord -> Node \cup {NoNode}]
    BY <2>1, <2>2, <1>9
  <2>4. DOMAIN r.table = D /\ r.table \in [D -> Cord]
    BY <2>1, <1>2, <1>10
  <2> QED  BY <2>1, <2>3, <2>4, <1>0, <1>20 DEF CordByCord
<1>12. /\ \A x \in Cord : r.board[x] = IF x = c THEN m ELSE IF x = d THEN n ELSE b.board[x]
       /\ r.table[m] = c /\ r.table[n] = d
       /\ \A k \in D : k # m /\ k # n => r.table[k] = b.table[k]
  BY <1>9, <1>10
<1>13. \A k \in D : k # m /\ k # n => b.table[k] # c /\ b.table[k] # d
  BY <1>0, <1>2 DEF CordByCord
<1>14. \A x \in Cord : x # c /\ x # d => (b.board[x] # n /\ b.board[x] # m) \/ b.board[x] = NoNode
  BY <1>0 DEF CordByCord, c, d
<1>15. \A k \in D : /\ r.table[k] \in Position(TypeOf(k)) /\ r.table[k] \in Cord
                    /\ TypeOf(k) \in DOMAIN Arch.block
                    /\ r.board[r.table[k]] = k /\ r.table[k] \in r.used[TypeOf(k)]
  <2> TAKE k \in D
  <2>1. CASE k = n \/ k = m
    BY <2>1, <1>2, <1>4, <1>8, <1>12
  <2>2. CASE k # n /\ k # m
    <3>1. /\ b.table[k] \in Position(TypeOf(k)) /\ b.table[k] \in Cord
          /\ TypeOf(k) \in DOMAIN Arch.block
          /\ b.board[b.table[k]] = k /\ b.table[k] \in b.used[TypeOf(k)]
      BY <1>0 DEF CordByCord
    <3>2. r.table[k] = b.table[k]
      BY <2>2, <1>12
    <3>3. r.board[b.table[k]] = k
      BY <2>2, <3>1, <1>12, <1>13
    <3> QED  BY <3>1, <3>2, <3>3, <1>20
  <2> QED  BY <2>1, <2>2
<1>16. \A x \in Cord : r.board[x] # NoNode => r.board[x] \in D /\ r.table[r.board[x]] = x
  <2> TAKE x \in Cord
  <2>1. CASE x = c \/ x = d
    BY <2>1, <1>2, <1>12
  <2>2. CASE x # c /\ x # d
    BY <2>2, <1>0, <1>12, <1>14 DEF CordByCord
  <2> QED  BY <2>1, <2>2
<1>17. \A t \in DOMAIN Arch.block : \A x \in r.used[t] :
         /\ x \in Position(t) /\ x \in Cord
         /\ r.board[x] \in D /\ r.table[r.board[x]] = x /\ TypeOf(r.board[x]) = t
  <2> TAKE t \in DOMAIN Arch.block
  <2> TAKE x \in r.used[t]
  <2>1. /\ x \in Position(t) /\ x \in Cord
        /\ b.board[x] \in D /\ b.table[b.board[x]] = x /\ TypeOf(b.board[x]) = t
    BY <1>0, <1>8 DEF CordByCord
  <2>2. CASE x = c \/ x = d
    BY <2>1, <2>2, <1>2, <1>12
  <2>3. CASE x # c /\ x # d
    <3>1. b.board[x] # n /\ b.board[x] # m
      BY <2>1, <2>3 DEF c, d
    <3> QED  BY <2>1, <2>3, <3>1, <1>12
  <2> QED  BY <2>2, <2>3
<1>18. \A t \in DOMAIN Arch.block : \A x \in r.unused[t] : x \in Cord /\ r.board[x] = NoNode
  <2> TAKE t \in DOMAIN Arch.block
  <2> TAKE x \in r.unused[t]
  <2>1. x \in b.unused[t] /\ x \in Cord /\ b.board[x] = NoNode /\ x \in Position(t)
          /\ x \notin b.used[t]
    BY <1>0, <1>8 DEF CordByCord
  <2>2. x # c /\ x # d
    BY <2>1, <1>4, ArchFacts
  <2> QED  BY <2>1, <2>2, <1>12
<1>19. \A t \in DOMAIN Arch.block : \A x :
         x \in r.unused[t] <=> x \in Position(t) /\ x \notin r.used[t]
  BY <1>0, <1>8 DEF CordByCord
<1>21. CordByCord(r)
  <2> HIDE DEF D
  <2> QED  BY <1>20, <1>11, <1>15, <1>16, <1>17, <1>18, <1>19 DEF CordByCord
<1> QED  BY <1>11, <1>21, BoardIntro DEF r, c, d

(* swapOnce with a cord that is not used: the node moves there.             *)
LEMMA MoveOK ==
  ASSUME sys \in DOMAIN Systems, NEW b, BoardOK(b),
         NEW n \in DOMAIN b.table, NEW d \in b.unused[TypeOf(n)]
  PROVE  /\ BoardOK(Move(b, n, b.table[n], d))
         /\ DOMAIN Move(b, n, b.table[n], d).table = DOMAIN b.table
<1> DEFINE c == b.table[n]
           T == TypeOf(n)
           D == DOMAIN b.table
           b1 == DeleteUsed(b, T, c)
           b2 == DeleteRecord(b1, n, c)
           b3 == AddUsed(b2, T, d)
           r == Move(b, n, c, d)
<1>0. CordByCord(b)
  BY BoardFacts
<1>1. IsBoard(b) /\ b.sound = TRUE
  BY <1>0 DEF CordByCord
<1>2. r = AddRecord(b3, n, d)
  BY DEF Move
<1>3. /\ c \in Cord /\ c \in Position(T) /\ c \in b.used[T] /\ b.board[c] = n
      /\ T \in DOMAIN Arch.block
  BY <1>0 DEF CordByCord
<1>4. d \in Cord /\ d \in Position(T) /\ d \notin b.used[T] /\ b.board[d] = NoNode /\ d # c
  BY <1>0, <1>3 DEF CordByCord
<1>5. /\ b.board \in [Cord -> Node \cup {NoNode}] /\ D \subseteq Node /\ b.table \in [D -> Cord]
      /\ b.used \in [DOMAIN Arch.block -> SUBSET Cord]
      /\ b.unused \in [DOMAIN Arch.block -> SUBSET Cord]
  BY <1>0 DEF CordByCord
<1>6. n \in D /\ d \in b.unused[T]
  OBVIOUS
<1> HIDE DEF c, T, b1, b2, b3, r
<1>7. /\ IsBoard(b1) /\ b1.sound = TRUE /\ b1.board = b.board /\ b1.table = b.table
      /\ b1.used = [b.used EXCEPT ![T] = @ \ {c}] /\ b1.unused = [b.unused EXCEPT ![T] = @ \cup {c}]
  BY <1>1, <1>3 DEF b1, DeleteUsed, IsBoard
<1>8. /\ IsBoard(b2) /\ b2.sound = TRUE /\ b2.used = b1.used /\ b2.unused = b1.unused
      /\ b2.board = [b.board EXCEPT ![c] = NoNode]
      /\ b2.table = [k \in D \ {n} |-> b.table[k]]
  BY <1>6, <1>7 DEF b2, DeleteRecord, IsBoard
<1>9. /\ b1.used \in [DOMAIN Arch.block -> SUBSET Cord]
      /\ b1.unused \in [DOMAIN Arch.block -> SUBSET Cord]
      /\ \A t \in DOMAIN Arch.block : \A x :
           /\ x \in b1.used[t] <=> x \in b.used[t] /\ ~(t = T /\ x = c)
           /\ x \in b1.unused[t] <=> x \in b.unused[t] \/ (t = T /\ x = c)
  BY <1>3, <1>5, <1>7
<1>10. /\ IsBoard(b3) /\ b3.sound = TRUE /\ b3.board = b2.board /\ b3.table = b2.table
       /\ b3.used = [b1.used EXCEPT ![T] = @ \cup {d}]
       /\ b3.unused = [b1.unused EXCEPT ![T] = @ \ {d}]
  <2>1. d \in b2.unused[T]
    BY <1>3, <1>6, <1>8, <1>9
  <2> QED  BY <2>1, <1>8 DEF b3, AddUsed, IsBoard
<1>11. /\ b3.used \in [DOMAIN Arch.block -> SUBSET Cord]
       /\ b3.unused \in [DOMAIN Arch.block -> SUBSET Cord]
       /\ \A t \in DOMAIN Arch.block : \A x :
            /\ x \in b3.used[t] <=> x \in b1.used[t] \/ (t = T /\ x = d)
            /\ x \in b3.unused[t] <=> x \in b1.unused[t] /\ ~(t = T /\ x = d)
  BY <1>3, <1>4, <1>9, <1>10
<1>12. /\ IsBoard(r) /\ r.sound = TRUE /\ r.used = b3.used /\ r.unused = b3.unused
       /\ r.board = [b3.board EXCEPT ![d] = n]
       /\ r.table = [k \in (D \ {n}) \cup {n} |-> IF k = n THEN d ELSE b3.table[k]]
  <2>1. DOMAIN b3.table = D \ {n}
    BY <1>8, <1>10
  <2> QED  BY <2>1, <1>2, <1>10 DEF AddRecord, IsBoard
<1>13. r.table = [k \in D |-> IF k = n THEN d ELSE b.table[k]]
  <2>1. (D \ {n}) \cup {n} = D
    BY <1>6
  <2> QED  BY <2>1, <1>8, <1>10, <1>12
<1>14. r.board = [x \in Cord |-> IF x = d THEN n ELSE IF x = c THEN NoNode ELSE b.board[x]]
  BY <1>3, <1>4, <1>5, <1>8, <1>10, <1>12
<1>15. /\ r.board \in [Cord -> Node \cup {NoNode}]
       /\ DOMAIN r.table = D /\ D \subseteq Node /\ r.table \in [D -> Cord]
  BY <1>4, <1>5, <1>6, <1>13, <1>14
<1>16. /\ \A x \in Cord : r.board[x] = IF x = d THEN n ELSE IF x = c THEN NoNode ELSE b.board[x]
       /\ r.table[n] = d /\ \A k \in D : k # n => r.table[k] = b.table[k]
  BY <1>6, <1>13, <1>14
<1>17. /\ IsBoard(r) /\ r.sound = TRUE
       /\ r.used \in [DOMAIN Arch.block -> SUBSET Cord]
       /\ r.unused \in [DOMAIN Arch.block -> SUBSET Cord]
       /\ \A t \in DOMAIN Arch.block : \A x :
            /\ x \in r.used[t] <=> (x \in b.used[t] /\ ~(t = T /\ x = c)) \/ (t = T /\ x = d)
            /\ x \in r.unused[t] <=> (x \in b.unused[t] \/ (t = T /\ x = c)) /\ ~(t = T /\ x = d)
  BY <1>9, <1>11, <1>12
<1>18. \A k \in D : k # n => b.table[k] # c /\ b.table[k] # d
  <2> TAKE k \in D
  <2>1. b.table[k] = d => TypeOf(k) = T
    BY <1>0, <1>3, <1>4, ArchFacts DEF CordByCord
  <2> QED  BY <2>1, <1>0, <1>3, <1>4 DEF CordByCord
<1>19. \A k \in D : /\ r.table[k] \in Position(TypeOf(k)) /\ r.table[k] \in Cord
                    /\ TypeOf(k) \in DOMAIN Arch.block
                    /\ r.board[r.table[k]] = k /\ r.table[k] \in r.used[TypeOf(k)]
  <2> TAKE k \in D
  <2>1. CASE k = n
    BY <2>1, <1>3, <1>4, <1>16, <1>17 DEF T
  <2>2. CASE k # n
    <3>1. /\ b.table[k] \in Position(TypeOf(k)) /\ b.table[k] \in Cord
          /\ TypeOf(k) \in DOMAIN Arch.block
          /\ b.board[b.table[k]] = k /\ b.table[k] \in b.used[TypeOf(k)]
      BY <1>0 DEF CordByCord
    <3>2. r.table[k] = b.table[k] /\ b.table[k] # c /\ b.table[k] # d
      BY <2>2, <1>16, <1>18
    <3> QED  BY <3>1, <3>2, <1>16, <1>17
  <2> QED  BY <2>1, <2>2
<1>20. \A x \in Cord : r.board[x] # NoNode => r.board[x] \in D /\ r.table[r.board[x]] = x
  <2> TAKE x \in Cord
  <2>1. CASE x = c \/ x = d
    BY <2>1, <1>4, <1>6, <1>16
  <2>2. CASE x # c /\ x # d
    <3>1. b.board[x] # NoNode => b.board[x] \in D /\ b.table[b.board[x]] = x /\ b.board[x] # n
      BY <2>2, <1>0 DEF CordByCord, c
    <3> QED  BY <2>2, <3>1, <1>16
  <2> QED  BY <2>1, <2>2
<1>21. \A t \in DOMAIN Arch.block : \A x \in r.used[t] :
         /\ x \in Position(t) /\ x \in Cord
         /\ r.board[x] \in D /\ r.table[r.board[x]] = x /\ TypeOf(r.board[x]) = t
  <2> TAKE t \in DOMAIN Arch.block
  <2> TAKE x \in r.used[t]
  <2>1. CASE t = T /\ x = d
    BY <2>1, <1>4, <1>6, <1>16 DEF T
  <2>2. CASE ~(t = T /\ x = d)
    <3>1. x \in b.used[t] /\ ~(t = T /\ x = c)
      BY <2>2, <1>17
    <3>2. /\ x \in Position(t) /\ x \in Cord
          /\ b.board[x] \in D /\ b.table[b.board[x]] = x /\ TypeOf(b.board[x]) = t
      BY <3>1, <1>0 DEF CordByCord
    <3>3. x # c /\ x # d
      BY <2>2, <3>1, <3>2, <1>3, <1>4, ArchFacts
    <3>4. b.board[x] # n
      BY <3>2, <3>3 DEF c
    <3> QED  BY <3>2, <3>3, <3>4, <1>16
  <2> QED  BY <2>1, <2>2
<1>22. \A t \in DOMAIN Arch.block : \A x :
         x \in r.unused[t] <=> x \in Position(t) /\ x \notin r.used[t]
  <2> TAKE t \in DOMAIN Arch.block
  <2> TAKE x
  <2>1. x \in b.unused[t] <=> x \in Position(t) /\ x \notin b.used[t]
    BY <1>0 DEF CordByCord
  <2> QED  BY <2>1, <1>3, <1>4, <1>17
<1>23. \A t \in DOMAIN Arch.block : \A x \in r.unused[t] : x \in Cord /\ r.board[x] = NoNode
  <2> TAKE t \in DOMAIN Arch.block
  <2> TAKE x \in r.unused[t]
  <2>1. CASE x = c
    BY <2>1, <1>3, <1>4, <1>16
  <2>2. CASE x # c
    <3>1. x \in b.unused[t] /\ ~(t = T /\ x = d)
      BY <2>2, <1>17
    <3>2. x \in Cord /\ b.board[x] = NoNode /\ x \in Position(t)
      BY <3>1, <1>0 DEF CordByCord
    <3>3. x # d
      BY <3>1, <3>2, <1>3, <1>4, ArchFacts
    <3> QED  BY <2>2, <3>2, <3>3, <1>16
  <2> QED  BY <2>1, <2>2
<1>24. CordByCord(r)
  <2> HIDE DEF D
  <2> QED  BY <1>15, <1>17, <1>19, <1>20, <1>21, <1>22, <1>23 DEF CordByCord
<1> QED  BY <1>15, <1>24, BoardIntro DEF r, c

(* swapOnce.                                                                *)
LEMMA SwapOK ==
  ASSUME sys \in DOMAIN Systems, NEW b, BoardOK(b),
         NEW n \in DOMAIN b.table, NEW d \in SwapTargets(b, n)
  PROVE  /\ BoardOK(SwapOnce(b, n, d))
         /\ DOMAIN SwapOnce(b, n, d).table = DOMAIN b.table
<1> DEFINE m == b.board[d]
<1>0. CordByCord(b) /\ TypeOf(n) \in DOMAIN Arch.block
  BY BoardFacts DEF CordByCord
<1>1. CASE d \in b.used[TypeOf(n)] /\ m = n
  BY <1>1 DEF SwapOnce
<1>2. CASE d \in b.used[TypeOf(n)] /\ m # n
  <2>1. m \in DOMAIN b.table /\ TypeOf(m) = TypeOf(n) /\ b.table[m] = d
    BY <1>0, <1>2 DEF CordByCord
  <2>2. SwapOnce(b, n, d) = Exchange(b, n, b.table[n], m, b.table[m])
    BY <1>2, <2>1 DEF SwapOnce
  <2> HIDE DEF m
  <2> QED  BY <1>2, <2>1, <2>2, ExchangeOK
<1>3. CASE d \notin b.used[TypeOf(n)]
  <2>1. d \in b.unused[TypeOf(n)]
    BY <1>3 DEF SwapTargets
  <2>2. SwapOnce(b, n, d) = Move(b, n, b.table[n], d)
    BY <1>3 DEF SwapOnce
  <2> QED  BY <2>1, <2>2, MoveOK
<1> QED  BY <1>1, <1>2, <1>3

(* clear takes nodes off the board.                                         *)
LEMMA ClearOK ==
  ASSUME sys \in DOMAIN Systems, NEW b, BoardOK(b), NEW nodes
  PROVE  /\ BoardOK(Clear(b, nodes))
         /\ DOMAIN Clear(b, nodes).table = DOMAIN b.table \ nodes
<1> DEFINE gone == nodes \cap DOMAIN b.table
           Cords(t) == {b.table[n] : n \in {m \in gone : TypeOf(m) = t}}
           D == DOMAIN b.table \ nodes
           r == Clear(b, nodes)
<1>0. CordByCord(b)
  BY BoardFacts
<1>1. /\ b.board \in [Cord -> Node \cup {NoNode}] /\ D \subseteq Node
      /\ DOMAIN b.used = DOMAIN Arch.block /\ DOMAIN b.unused = DOMAIN Arch.block
      /\ b.sound = TRUE /\ \A n \in gone : b.table[n] \in b.used[TypeOf(n)]
  BY <1>0 DEF CordByCord
<1>2. r = [board |-> [c \in DOMAIN b.board |-> IF \E n \in gone : b.table[n] = c THEN NoNode ELSE b.board[c]],
           table |-> [n \in D |-> b.table[n]],
           used |-> [t \in DOMAIN b.used |-> b.used[t] \ Cords(t)],
           unused |-> [t \in DOMAIN b.unused |-> b.unused[t] \cup Cords(t)],
           sound |-> b.sound /\ \A n \in gone : b.table[n] \in b.used[TypeOf(n)]]
  BY DEF Clear
<1>3. IsBoard(r) /\ r.sound = TRUE /\ r.table = [n \in D |-> b.table[n]]
  <2>1. IsBoard(r) /\ r.table = [n \in D |-> b.table[n]]
    BY DEF Clear, IsBoard
  <2>2. r.sound = (b.sound /\ \A n \in gone : b.table[n] \in b.used[TypeOf(n)])
    BY DEF Clear
  <2> QED  BY <2>1, <2>2, <1>1
<1>4. \A c \in Cord : r.board[c] = IF \E n \in gone : b.table[n] = c THEN NoNode ELSE b.board[c]
  BY <1>1, <1>2
<1>5. \A t \in DOMAIN Arch.block : \A x :
        /\ x \in r.used[t] <=> x \in b.used[t] /\ x \notin Cords(t)
        /\ x \in r.unused[t] <=> x \in b.unused[t] \/ x \in Cords(t)
  BY <1>1, <1>2
<1>6. \A t : \A x : x \in Cords(t) <=> \E n \in gone : TypeOf(n) = t /\ b.table[n] = x
  OBVIOUS
<1>7. /\ DOMAIN r.board = DOMAIN b.board /\ DOMAIN r.used = DOMAIN b.used
      /\ DOMAIN r.unused = DOMAIN b.unused
      /\ r.board = [c \in Cord |-> r.board[c]] /\ r.used = [t \in DOMAIN Arch.block |-> r.used[t]]
      /\ r.unused = [t \in DOMAIN Arch.block |-> r.unused[t]]
  BY <1>1, <1>2
<1>8. DOMAIN r.table = D
  BY <1>3
<1> HIDE DEF Cords, r
<1>9. /\ r.board \in [Cord -> Node \cup {NoNode}] /\ r.table \in [D -> Cord]
      /\ r.used \in [DOMAIN Arch.block -> SUBSET Cord]
      /\ r.unused \in [DOMAIN Arch.block -> SUBSET Cord]
  <2>1. \A c \in Cord : r.board[c] \in Node \cup {NoNode}
    BY <1>1, <1>4
  <2>2. \A t \in DOMAIN Arch.block : r.used[t] \in SUBSET Cord /\ r.unused[t] \in SUBSET Cord
    BY <1>0, <1>5, <1>6 DEF CordByCord
  <2>3. \A n \in D : b.table[n] \in Cord
    BY <1>0 DEF CordByCord
  <2> QED  BY <2>1, <2>2, <2>3, <1>3, <1>7
<1>10. /\ \A n \in D : r.table[n] = b.table[n] /\ n \in DOMAIN b.table /\ n \notin gone
       /\ \A n \in DOMAIN b.table : n \in D \/ n \in gone
       /\ \A n \in gone : n \in DOMAIN b.table
  BY <1>3
<1> HIDE DEF gone, D
<1>11. \A n \in D : /\ r.table[n] \in Position(TypeOf(n)) /\ r.table[n] \in Cord
                    /\ TypeOf(n) \in DOMAIN Arch.block
                    /\ r.board[r.table[n]] = n /\ r.table[n] \in r.used[TypeOf(n)]
  <2> TAKE n \in D
  <2>1. /\ b.table[n] \in Position(TypeOf(n)) /\ b.table[n] \in Cord
        /\ TypeOf(n) \in DOMAIN Arch.block
        /\ b.board[b.table[n]] = n /\ b.table[n] \in b.used[TypeOf(n)]
        /\ r.table[n] = b.table[n]
    BY <1>0, <1>10 DEF CordByCord
  <2>2. ~ \E m \in gone : b.table[m] = b.table[n]
    BY <1>0, <1>10 DEF CordByCord
  <2> QED  BY <2>1, <2>2, <1>4, <1>5, <1>6
<1>12. \A c \in Cord : r.board[c] # NoNode => r.board[c] \in D /\ r.table[r.board[c]] = c
  BY <1>0, <1>4, <1>10 DEF CordByCord
<1>13. \A t \in DOMAIN Arch.block : \A c \in r.used[t] :
         /\ c \in Position(t) /\ c \in Cord
         /\ r.board[c] \in D /\ r.table[r.board[c]] = c /\ TypeOf(r.board[c]) = t
  <2> TAKE t \in DOMAIN Arch.block
  <2> TAKE c \in r.used[t]
  <2>1. /\ c \in Position(t) /\ c \in Cord
        /\ b.board[c] \in DOMAIN b.table /\ b.table[b.board[c]] = c /\ TypeOf(b.board[c]) = t
    BY <1>0, <1>5 DEF CordByCord
  <2>2. b.board[c] \notin gone
    BY <2>1, <1>5, <1>6
  <2>3. ~ \E n \in gone : b.table[n] = c
    BY <2>2, <1>0, <1>10 DEF CordByCord
  <2> QED  BY <2>1, <2>2, <2>3, <1>4, <1>10
<1>14. \A t \in DOMAIN Arch.block : \A c :
         c \in r.unused[t] <=> c \in Position(t) /\ c \notin r.used[t]
  <2> TAKE t \in DOMAIN Arch.block
  <2> TAKE c
  <2>1. c \in b.unused[t] <=> c \in Position(t) /\ c \notin b.used[t]
    BY <1>0 DEF CordByCord
  <2>2. c \in Cords(t) => c \in Position(t)
    BY <1>0, <1>6, <1>10 DEF CordByCord
  <2>3. c \in b.used[t] => c \in Position(t)
    BY <1>0 DEF CordByCord
  <2> QED  BY <2>1, <2>2, <2>3, <1>5
<1>15. \A t \in DOMAIN Arch.block : \A c \in r.unused[t] : c \in Cord /\ r.board[c] = NoNode
  <2> TAKE t \in DOMAIN Arch.block
  <2> TAKE c \in r.unused[t]
  <2>1. CASE c \in b.unused[t]
    BY <2>1, <1>0, <1>4 DEF CordByCord
  <2>2. CASE c \in Cords(t)
    BY <2>2, <1>0, <1>4, <1>6, <1>10 DEF CordByCord
  <2> QED  BY <2>1, <2>2, <1>5
<1>16. CordByCord(r)
  BY <1>1, <1>3, <1>8, <1>9, <1>11, <1>12, <1>13, <1>14, <1>15 DEF CordByCord
<1> QED  BY <1>8, <1>16, BoardIntro DEF r, D

-----------------------------------------------------------------------------
(* Placement.                                                               *)

(* The system does not change, nor does what is made from it.               *)
LEMMA SameSystem ==
  ASSUME sys' = sys
  PROVE  Cord' = Cord /\ Node' = Node /\ Arch' = Arch /\ Dfg' = Dfg /\ Stages' = Stages
BY DEF Cord, Node, Arch, Dfg, Stages, TypeOf

LEMMA SameBoard ==
  ASSUME sys' = sys
  PROVE  /\ BoardOK(placement') => BoardOK(placement)'
         /\ BoardOK(temp') => BoardOK(temp)'
<1>1. ASSUME BoardOK(placement') PROVE BoardOK(placement)'
  BY <1>1, SameSystem DEF BoardOK, IsBoard, Agrees, TypeOf, Position
<1>2. ASSUME BoardOK(temp') PROVE BoardOK(temp)'
  BY <1>2, SameSystem DEF BoardOK, IsBoard, Agrees, TypeOf, Position
<1> QED  BY <1>1, <1>2

(* The stages place all the nodes.                                          *)
LEMMA StageFacts ==
  /\ Len(Stages) \in {1, 2} /\ DOMAIN Stages = 1 .. Len(Stages)
  /\ \A s \in DOMAIN Stages : Stages[s] \subseteq Node /\ Placed(s) = Placed(s - 1) \cup Stages[s]
  /\ Placed(0) = {} /\ Placed(Len(Stages)) = Node
<1> DEFINE ls == {n \in Node : TypeOf(n) = "ls"}
<1>1. Placed(0) = {}
  BY DEF Placed
<1>2. Placed(1) = Stages[1] /\ Placed(2) = Stages[1] \cup Stages[2]
  BY DEF Placed
<1>3. CASE Systems[sys].staged
  <2>1. Stages = <<ls, Node \ ls>>
    BY <1>3 DEF Stages
  <2>2. Len(Stages) = 2 /\ DOMAIN Stages = 1 .. 2 /\ Stages[1] = ls /\ Stages[2] = Node \ ls
    BY <2>1
  <2> QED  BY <2>2, <1>1, <1>2
<1>4. CASE ~Systems[sys].staged
  <2>1. Stages = <<Node>>
    BY <1>4 DEF Stages
  <2>2. Len(Stages) = 1 /\ DOMAIN Stages = 1 .. 1 /\ Stages[1] = Node
    BY <2>1
  <2> QED  BY <2>2, <1>1, <1>2
<1> QED  BY <1>3, <1>4

(* A move of the engine keeps a board on which all nodes of the stage are.  *)
LEMMA SwappedOK ==
  ASSUME PlaceIInv, sa.pc \in {"sample", "move"}, NEW moved \in Swapped(temp)
  PROVE  BoardOK(moved) /\ DOMAIN moved.table = Placed(sa.stage)
<1>1. PICK n \in NodesToPlace : \E d \in SwapTargets(temp, n) : moved = SwapOnce(temp, n, d)
  BY DEF Swapped
<1>2. PICK d \in SwapTargets(temp, n) : moved = SwapOnce(temp, n, d)
  BY <1>1
<1>3. DOMAIN temp.table = Placed(sa.stage) /\ sa.stage \in DOMAIN Stages
  BY DEF PlaceIInv, StageOK
<1>4. n \in DOMAIN temp.table
  BY <1>1, <1>3, StageFacts DEF NodesToPlace
<1> QED  BY <1>2, <1>3, <1>4, SwapOK DEF PlaceIInv

(* What the functions of the cost depend on.                                *)
LEMMA SameCost ==
  ASSUME sys' = sys, sa'.stage = sa.stage
  PROVE  /\ NodesToPlace' = NodesToPlace
         /\ CostFun(placement)' = GetFunction(sys, NodesToPlace, placement')
<1>1. NodesToPlace' = NodesToPlace
  BY SameSystem DEF NodesToPlace
<1> QED  BY <1>1 DEF CostFun

(* Going on to the next stage.                                              *)
LEMMA NextStageOK ==
  ASSUME PlaceIInv, sa.pc \in {"sample", "cool"}, sa' = NextStage,
         UNCHANGED <<sys, placement, temp>>
  PROVE  PlaceIInv'
<1>1. /\ sys' = sys /\ placement' = placement /\ temp' = temp
      /\ DOMAIN sa = {"stage", "pc", "left", "count", "seen"} /\ sa.stage \in DOMAIN Stages
      /\ DOMAIN placement.table = Placed(sa.stage)
      /\ BoardOK(placement') /\ BoardOK(temp') /\ sys \in DOMAIN Systems
  BY DEF PlaceIInv, StageOK
<1>2. StageOK'
  <2>1. CASE sa.stage = Len(Stages)
    <3>1. sa' = [sa EXCEPT !.pc = "end", !.seen = {}, !.count = 0]
      BY <2>1 DEF NextStage
    <3>2. sa'.pc = "end" /\ sa'.stage = sa.stage /\ DOMAIN sa' = DOMAIN sa
      BY <3>1, <1>1
    <3>3. DOMAIN placement'.table = Node
      BY <1>1, <2>1, StageFacts
    <3> QED  BY <3>2, <3>3, <1>1, SameSystem DEF StageOK
  <2>2. CASE sa.stage # Len(Stages)
    <3>1. sa' = [sa EXCEPT !.pc = "begin", !.stage = @ + 1]
      BY <2>2 DEF NextStage
    <3>2. sa'.pc = "begin" /\ sa'.stage = sa.stage + 1 /\ DOMAIN sa' = DOMAIN sa
      BY <3>1, <1>1
    <3>3. sa'.stage \in DOMAIN Stages /\ sa'.stage - 1 = sa.stage
      BY <2>2, <3>2, <1>1, StageFacts
    <3>4. DOMAIN placement'.table = Placed(sa'.stage - 1)
      BY <1>1, <3>3
    <3>5. Placed(sa.stage - 1)' = Placed(sa'.stage - 1)
      BY <1>1, SameSystem DEF Placed
    <3> QED  BY <3>2, <3>3, <3>4, <3>5, <1>1, SameSystem DEF StageOK
  <2> QED  BY <2>1, <2>2
<1> QED  BY <1>1, <1>2, SameBoard DEF PlaceIInv

(* Each step of the engine keeps the invariant.                             *)
LEMMA PlaceKeeps ==
  ASSUME PlaceIInv, PlaceNext
  PROVE  PlaceIInv'
<1> DEFINE s == sa.stage
<1>1. /\ sys \in DOMAIN Systems /\ BoardOK(placement) /\ BoardOK(temp)
      /\ DOMAIN sa = {"stage", "pc", "left", "count", "seen"} /\ s \in DOMAIN Stages
      /\ NodesToPlace = Stages[s] /\ NodesToPlace \subseteq Node
      /\ Placed(s) = Placed(s - 1) \cup NodesToPlace
  BY StageFacts DEF PlaceIInv, StageOK, NodesToPlace
<1>2. CASE RandomGenerate
  <2>1. /\ sa.pc = "begin" /\ placement' = Clear(placement, NodesToPlace)
        /\ sa' = [sa EXCEPT !.pc = "put", !.left = NodesToPlace] /\ sys' = sys /\ temp' = temp
    BY <1>2 DEF RandomGenerate
  <2>2. sa'.pc = "put" /\ sa'.left = NodesToPlace /\ sa'.stage = s /\ DOMAIN sa' = DOMAIN sa
    BY <1>1, <2>1
  <2>3. BoardOK(placement') /\ DOMAIN placement'.table = DOMAIN placement.table \ NodesToPlace
    BY <1>1, <2>1, ClearOK
  <2>4. DOMAIN placement'.table = Placed(s) \ NodesToPlace
    BY <1>1, <2>1, <2>3 DEF PlaceIInv, StageOK
  <2>5. Placed(s)' = Placed(s) /\ NodesToPlace' = NodesToPlace
    BY <2>1, <2>2, SameCost, SameSystem DEF Placed
  <2>6. StageOK'
    BY <1>1, <2>1, <2>2, <2>4, <2>5, SameSystem DEF StageOK
  <2> QED  BY <1>1, <2>1, <2>3, <2>6, SameBoard DEF PlaceIInv
<1>3. CASE PutNode
  <2>1. PICK n \in sa.left : \E c \in placement.unused[TypeOf(n)] :
          /\ placement' = RandomPutNode(placement, n, c)
          /\ sa' = [sa EXCEPT !.left = @ \ {n}]
    BY <1>3 DEF PutNode
  <2>2. PICK c \in placement.unused[TypeOf(n)] :
          /\ placement' = RandomPutNode(placement, n, c)
          /\ sa' = [sa EXCEPT !.left = @ \ {n}]
    BY <2>1
  <2>3. sa.pc = "put" /\ sys' = sys /\ temp' = temp
    BY <1>3 DEF PutNode
  <2>4. sa'.pc = "put" /\ sa'.left = sa.left \ {n} /\ sa'.stage = s /\ DOMAIN sa' = DOMAIN sa
    BY <1>1, <2>2, <2>3
  <2>5. sa.left \subseteq NodesToPlace /\ DOMAIN placement.table = Placed(s) \ sa.left
    BY <2>3 DEF PlaceIInv, StageOK
  <2>6. n \in Node /\ n \notin DOMAIN placement.table /\ n \in Placed(s)
    BY <1>1, <2>5
  <2>7. BoardOK(placement') /\ DOMAIN placement'.table = DOMAIN placement.table \cup {n}
    BY <1>1, <2>2, <2>6, PutOK
  <2>8. DOMAIN placement'.table = Placed(s) \ sa'.left
    BY <2>4, <2>5, <2>6, <2>7
  <2>9. Placed(s)' = Placed(s) /\ NodesToPlace' = NodesToPlace
    BY <2>3, <2>4, SameCost, SameSystem DEF Placed
  <2>10. StageOK'
    BY <1>1, <2>3, <2>4, <2>5, <2>8, <2>9, SameSystem DEF StageOK
  <2> QED  BY <1>1, <2>3, <2>7, <2>10, SameBoard DEF PlaceIInv
<1>4. CASE InitCost
  <2>1. /\ sa.pc = "put" /\ sa.left = {} /\ cost' = CostFun(placement) /\ temp' = placement
        /\ sa' = [sa EXCEPT !.pc = "sample", !.count = 0, !.seen = {}]
        /\ sys' = sys /\ placement' = placement
    BY <1>4 DEF InitCost
  <2>2. sa'.pc = "sample" /\ sa'.stage = s /\ DOMAIN sa' = DOMAIN sa
    BY <1>1, <2>1
  <2>3. DOMAIN placement.table = Placed(s)
    BY <2>1 DEF PlaceIInv, StageOK
  <2>4. Placed(s)' = Placed(s) /\ CostFun(placement)' = CostFun(placement)
    BY <2>1, <2>2, SameCost, SameSystem DEF Placed, CostFun
  <2>5. StageOK'
    BY <1>1, <2>1, <2>2, <2>3, <2>4, SameSystem DEF StageOK
  <2> QED  BY <1>1, <2>1, <2>5, SameBoard DEF PlaceIInv
<1>5. CASE Sample
  <2>1. PICK moved \in Swapped(temp) :
          temp' = moved /\ sa' = [sa EXCEPT !.count = @ + 1, !.seen = @ \cup {CostFun(moved)}]
    BY <1>5 DEF Sample
  <2>2. sa.pc = "sample" /\ sys' = sys /\ placement' = placement /\ cost' = cost
    BY <1>5 DEF Sample
  <2>3. sa'.pc = "sample" /\ sa'.stage = s /\ DOMAIN sa' = DOMAIN sa
    BY <1>1, <2>1, <2>2
  <2>4. BoardOK(temp') /\ DOMAIN temp'.table = Placed(s)
    BY <2>1, <2>2, SwappedOK
  <2>5. DOMAIN placement.table = Placed(s) /\ cost = CostFun(placement)
    BY <2>2 DEF PlaceIInv, StageOK
  <2>6. Placed(s)' = Placed(s) /\ CostFun(placement)' = CostFun(placement)
    BY <2>2, <2>3, SameCost, SameSystem DEF Placed, CostFun
  <2>7. StageOK'
    BY <1>1, <2>2, <2>3, <2>4, <2>5, <2>6, SameSystem DEF StageOK
  <2> QED  BY <1>1, <2>2, <2>4, <2>7, SameBoard DEF PlaceIInv
<1>6. CASE StandardDeviation
  <2>1. sa.pc = "sample" /\ UNCHANGED <<sys, placement, temp, cost>>
    BY <1>6 DEF StandardDeviation
  <2>2. CASE Cardinality(sa.seen) = 1
    <3>1. sa' = NextStage
      BY <1>6, <2>2 DEF StandardDeviation
    <3> QED  BY <2>1, <3>1, NextStageOK
  <2>3. CASE Cardinality(sa.seen) # 1
    <3>1. sa' = [sa EXCEPT !.pc = "cool", !.seen = {}, !.count = 0]
      BY <1>6, <2>3 DEF StandardDeviation
    <3>2. sa'.pc = "cool" /\ sa'.stage = s /\ DOMAIN sa' = DOMAIN sa
      BY <1>1, <3>1
    <3>3. Placed(s)' = Placed(s) /\ CostFun(placement)' = CostFun(placement)
      BY <2>1, <3>2, SameCost, SameSystem DEF Placed, CostFun
    <3>4. StageOK'
      BY <1>1, <2>1, <3>2, <3>3, SameSystem DEF StageOK, PlaceIInv
    <3> QED  BY <1>1, <2>1, <3>4, SameBoard DEF PlaceIInv
  <2> QED  BY <2>2, <2>3
<1>7. CASE Over
  BY <1>7, NextStageOK DEF Over
<1>8. CASE StartMoves
  <2>1. /\ sa.pc = "cool" /\ temp' = placement /\ sa' = [sa EXCEPT !.pc = "move"]
        /\ sys' = sys /\ placement' = placement /\ cost' = cost
    BY <1>8 DEF StartMoves
  <2>2. sa'.pc = "move" /\ sa'.stage = s /\ DOMAIN sa' = DOMAIN sa
    BY <1>1, <2>1
  <2>3. Placed(s)' = Placed(s) /\ CostFun(placement)' = CostFun(placement)
    BY <2>1, <2>2, SameCost, SameSystem DEF Placed, CostFun
  <2>4. StageOK'
    BY <1>1, <2>1, <2>2, <2>3, SameSystem DEF StageOK, PlaceIInv
  <2> QED  BY <1>1, <2>1, <2>4, SameBoard DEF PlaceIInv
<1>9. CASE MoveOnce
  <2>1. sa.pc = "move" /\ sys' = sys
    BY <1>9 DEF MoveOnce
  <2>2. PICK pc \in {"move", "cool"} : sa' = [sa EXCEPT !.pc = pc]
    BY <1>9 DEF MoveOnce
  <2>3. sa'.pc \in {"move", "cool"} /\ sa'.stage = s /\ DOMAIN sa' = DOMAIN sa
    BY <1>1, <2>2
  <2>4. PICK moved \in Swapped(temp) :
          \/ placement' = moved /\ temp' = placement /\ cost' = CostFun(moved)
          \/ temp' = moved /\ placement' = placement /\ cost' = cost
    BY <1>9 DEF MoveOnce
  <2>5. BoardOK(moved) /\ DOMAIN moved.table = Placed(s)
    BY <2>1, SwappedOK
  <2>6. DOMAIN placement.table = Placed(s) /\ cost = CostFun(placement)
    BY <2>1 DEF PlaceIInv, StageOK
  <2>7. Placed(s)' = Placed(s)
        /\ CostFun(placement)' = GetFunction(sys, NodesToPlace, placement')
    BY <2>1, <2>3, SameCost, SameSystem DEF Placed
  <2>8. CostFun(moved) = GetFunction(sys, NodesToPlace, moved)
        /\ CostFun(placement) = GetFunction(sys, NodesToPlace, placement)
    BY DEF CostFun
  <2>9. /\ BoardOK(placement') /\ BoardOK(temp') /\ cost' = CostFun(placement)'
        /\ DOMAIN placement'.table = Placed(s) /\ DOMAIN temp'.table = Placed(s)
    BY <1>1, <2>4, <2>5, <2>6, <2>7, <2>8
  <2>10. StageOK'
    BY <1>1, <2>1, <2>3, <2>7, <2>9, SameSystem DEF StageOK
  <2> QED  BY <1>1, <2>1, <2>9, <2>10, SameBoard DEF PlaceIInv
<1> QED  BY <1>2, <1>3, <1>4, <1>5, <1>6, <1>7, <1>8, <1>9 DEF PlaceNext

LEMMA PlaceStarts ==
  ASSUME PlaceInit
  PROVE  PlaceIInv
<1>1. sys \in DOMAIN Systems /\ placement = EmptyBoard(sys) /\ temp = EmptyBoard(sys)
        /\ sa = [stage |-> 1, pc |-> "begin", left |-> {}, count |-> 0, seen |-> {}]
  BY DEF PlaceInit
<1>2. BoardOK(placement) /\ BoardOK(temp) /\ DOMAIN placement.table = {}
  BY <1>1, EmptyBoardOK
<1>3. sa.stage = 1 /\ sa.pc = "begin" /\ DOMAIN sa = {"stage", "pc", "left", "count", "seen"}
  BY <1>1
<1>4. StageOK
  BY <1>2, <1>3, StageFacts DEF StageOK
<1> QED  BY <1>1, <1>2, <1>4 DEF PlaceIInv

(* Steps of the rest of the program.                                        *)
LEMMA PlaceStutters ==
  ASSUME PlaceIInv, UNCHANGED placeVars
  PROVE  PlaceIInv'
<1>1. /\ sys' = sys /\ placement' = placement /\ temp' = temp /\ cost' = cost /\ sa' = sa
  BY DEF placeVars
<1>2. Placed(sa.stage)' = Placed(sa.stage) /\ Placed(sa.stage - 1)' = Placed(sa.stage - 1)
        /\ CostFun(placement)' = CostFun(placement) /\ NodesToPlace' = NodesToPlace
  BY <1>1, SameCost, SameSystem DEF Placed, CostFun
<1>3. StageOK'
  BY <1>1, <1>2, SameSystem DEF StageOK, PlaceIInv
<1> QED  BY <1>1, <1>3, SameBoard DEF PlaceIInv

-----------------------------------------------------------------------------
(* Routing.                                                                 *)

(* A net at the end of the list of a resource.                              *)
LEMMA Appended ==
  ASSUME NEW S, NEW q \in Seq(S), IsInjective(q), NEW n \in S, n \notin ToSet(q)
  PROVE  /\ Append(q, n) \in Seq(S) /\ Len(Append(q, n)) = Len(q) + 1
         /\ IsInjective(Append(q, n)) /\ ToSet(Append(q, n)) = ToSet(q) \cup {n}
<1> DEFINE a == Append(q, n)
<1>1. /\ a \in Seq(S) /\ Len(a) = Len(q) + 1 /\ a[Len(q) + 1] = n
      /\ \A i \in 1 .. Len(q) : a[i] = q[i]
  BY AppendProperties
<1>2. Len(q) \in Nat /\ DOMAIN q = 1 .. Len(q) /\ DOMAIN a = 1 .. (Len(q) + 1)
  BY <1>1, LenProperties
<1> HIDE DEF a
<1>3. IsInjective(a)
  BY <1>1, <1>2 DEF IsInjective, ToSet
<1>4. ToSet(a) = ToSet(q) \cup {n}
  BY <1>1, <1>2 DEF ToSet
<1> QED  BY <1>1, <1>3, <1>4 DEF a

(* A net taken out of it.                                                   *)
LEMMA ErasedOne ==
  ASSUME NEW S, NEW q \in Seq(S), IsInjective(q), NEW n \in ToSet(q)
  PROVE  /\ Erased(q, n) \in Seq(S) /\ Len(Erased(q, n)) = Len(q) - 1
         /\ IsInjective(Erased(q, n)) /\ ToSet(Erased(q, n)) = ToSet(q) \ {n}
<1> DEFINE k == CHOOSE i \in DOMAIN q : q[i] = n
           e == Erased(q, n)
           left == SubSeq(q, 1, k - 1)
           right == SubSeq(q, k + 1, Len(q))
<1>1. k \in DOMAIN q /\ q[k] = n
  BY DEF ToSet
<1>2. e = left \o right
  BY DEF Erased, RemoveAt
<1> HIDE DEF k, e
<1>3. Len(q) \in Nat /\ DOMAIN q = 1 .. Len(q)
  BY LenProperties
<1>4. left \in Seq(S) /\ Len(left) = k - 1 /\ \A i \in 1 .. (k - 1) : left[i] = q[i]
  BY <1>1, <1>3, SubSeqProperties
<1>5. right \in Seq(S) /\ Len(right) = Len(q) - k
        /\ \A i \in 1 .. (Len(q) - k) : right[i] = q[k + i]
  BY <1>1, <1>3, SubSeqProperties
<1> HIDE DEF left, right
<1>6. /\ e \in Seq(S) /\ Len(e) = Len(left) + Len(right)
      /\ \A i \in 1 .. Len(left) + Len(right) :
           e[i] = IF i <= Len(left) THEN left[i] ELSE right[i - Len(left)]
  BY <1>2, <1>4, <1>5, ConcatProperties
<1>7. e \in Seq(S) /\ Len(e) = Len(q) - 1
  BY <1>1, <1>3, <1>4, <1>5, <1>6
<1>8. \A i \in 1 .. (Len(q) - 1) : e[i] = IF i < k THEN q[i] ELSE q[i + 1]
  <2> TAKE i \in 1 .. (Len(q) - 1)
  <2>1. CASE i < k
    <3>1. i \in 1 .. Len(left) + Len(right) /\ i <= Len(left) /\ i \in 1 .. (k - 1)
      BY <2>1, <1>1, <1>3, <1>4, <1>5
    <3>2. e[i] = left[i]
      BY <3>1, <1>6
    <3> QED  BY <2>1, <3>1, <3>2, <1>4
  <2>2. CASE i >= k
    <3>1. i \in 1 .. Len(left) + Len(right) /\ ~(i <= Len(left)) /\ ~(i < k)
            /\ i - Len(left) \in 1 .. (Len(q) - k) /\ k + (i - Len(left)) = i + 1
      BY <2>2, <1>1, <1>3, <1>4, <1>5
    <3>2. e[i] = right[i - Len(left)]
      BY <3>1, <1>6
    <3> QED  BY <3>1, <3>2, <1>5
  <2> QED  BY <2>1, <2>2, <1>1, <1>3
<1>9. DOMAIN e = 1 .. (Len(q) - 1)
  BY <1>7, LenProperties
<1>10. IsInjective(e)
  <2> SUFFICES ASSUME NEW a \in DOMAIN e, NEW b \in DOMAIN e, e[a] = e[b] PROVE a = b
    BY DEF IsInjective
  <2> DEFINE From(i) == IF i < k THEN i ELSE i + 1
  <2>1. ASSUME NEW i \in DOMAIN e PROVE From(i) \in DOMAIN q /\ e[i] = q[From(i)] /\ i \in Nat
    BY <1>1, <1>3, <1>8, <1>9
  <2>2. From(a) = From(b)
    <3> HIDE DEF From
    <3> QED BY <2>1 DEF IsInjective
  <2> QED BY <1>1, <1>3, <2>1, <2>2
<1>11. ToSet(e) = ToSet(q) \ {n}
  <2>1. ASSUME NEW x \in ToSet(e) PROVE x \in ToSet(q) \ {n}
    BY <2>1, <1>1, <1>3, <1>8, <1>9 DEF IsInjective, ToSet
  <2>2. ASSUME NEW x \in ToSet(q), x # n PROVE x \in ToSet(e)
    <3>1. PICK i \in DOMAIN q : x = q[i]
      BY DEF ToSet
    <3>2. i # k
      BY <2>2, <3>1, <1>1
    <3>3. CASE i < k
      BY <3>1, <3>3, <1>1, <1>3, <1>8, <1>9 DEF ToSet
    <3>4. CASE i > k
      <4>1. i - 1 \in DOMAIN e /\ e[i - 1] = x
        BY <3>1, <3>4, <1>1, <1>3, <1>8, <1>9
      <4> QED  BY <4>1 DEF ToSet
    <3> QED  BY <3>1, <3>2, <3>3, <3>4, <1>1, <1>3
  <2> QED  BY <2>1, <2>2
<1> QED  BY <1>7, <1>10, <1>11 DEF e

(* The counts of the pool after nets have been added to lists, and after a  *)
(* net has been taken out of them.                                          *)
Conflicts(R, q) == [r \in {x \in R : Len(q[x]) >= 2} |-> Len(q[r])]
Crowded(R, rs, q) == {r \in R : r \in rs /\ Len(q[r]) >= 2}
Differ(R, rs, q, z) ==
  \A r \in R : Len(q[r]) \in Nat /\ Len(z[r]) = IF r \in rs THEN Len(q[r]) + 1 ELSE Len(q[r])

LEMMA PoolGrows ==
  ASSUME NEW R, NEW q, NEW z, NEW rs, Differ(R, rs, q, z)
  PROVE  AddResource(Conflicts(R, q), Crowded(R, rs, z)) = Conflicts(R, z)
<1> DEFINE Q == {x \in R : Len(q[x]) >= 2}
           Z == {x \in R : Len(z[x]) >= 2}
           A == {r \in R : r \in rs /\ Len(z[r]) >= 2}
           p == [r \in Q |-> Len(q[r])]
           a == AddResource(p, A)
<1>1. \A r \in R : /\ Len(q[r]) \in Nat /\ Len(z[r]) \in Nat
                   /\ Len(z[r]) = IF r \in rs THEN Len(q[r]) + 1 ELSE Len(q[r])
  BY DEF Differ
<1>2. a = [r \in Q \cup A |-> IF r \notin A THEN p[r] ELSE IF r \in Q THEN p[r] + 1 ELSE 2]
  BY DEF AddResource
<1>3. \A r \in Q : p[r] = Len(q[r])
  OBVIOUS
<1>4. Q \cup A = Z
  BY <1>1
<1>5. \A r \in Z : (IF r \notin A THEN p[r] ELSE IF r \in Q THEN p[r] + 1 ELSE 2) = Len(z[r])
  <2> TAKE r \in Z
  <2>1. r \in R /\ Len(z[r]) >= 2 /\ (r \in A <=> r \in rs) /\ (r \in Q <=> Len(q[r]) >= 2)
    OBVIOUS
  <2> HIDE DEF Q, Z, A, p
  <2>2. CASE r \in rs
    <3>1. Len(z[r]) = Len(q[r]) + 1 /\ Len(q[r]) \in Nat
      BY <2>1, <2>2, <1>1
    <3>2. CASE r \in Q
      BY <2>1, <2>2, <3>1, <3>2, <1>3
    <3>3. CASE r \notin Q
      BY <2>1, <2>2, <3>1, <3>3
    <3> QED  BY <3>2, <3>3
  <2>3. CASE r \notin rs
    BY <2>1, <2>3, <1>1, <1>3
  <2> QED  BY <2>2, <2>3
<1> HIDE DEF Q, Z, A, p, a
<1>6. a = [r \in Z |-> Len(z[r])]
  BY <1>2, <1>4, <1>5
<1> QED  BY <1>6 DEF Q, Z, A, p, a, Conflicts, Crowded

LEMMA OneLess ==
  ASSUME NEW k \in Nat, NEW l, l = k - 1
  PROVE  l >= 2 <=> k >= 2 /\ k # 2
<1>1. l >= 2 => k >= 2 /\ k # 2
  OBVIOUS
<1>2. k >= 2 /\ k # 2 => l >= 2
  OBVIOUS
<1> QED  BY <1>1, <1>2

LEMMA PoolShrinks ==
  ASSUME NEW R, NEW q, NEW z, NEW rs, Differ(R, rs, z, q), \A r \in R : Len(q[r]) \in Nat
  PROVE  ReduceResource(Conflicts(R, q), rs) = Conflicts(R, z)
<1> DEFINE Q == {x \in R : Len(q[x]) >= 2}
           Z == {x \in R : Len(z[x]) >= 2}
           p == [r \in Q |-> Len(q[r])]
           K == {x \in DOMAIN p : x \notin rs \/ p[x] # 2}
           a == ReduceResource(p, rs)
<1>1. \A r \in R : /\ Len(q[r]) \in Nat /\ Len(z[r]) \in Nat
                   /\ Len(z[r]) = IF r \in rs THEN Len(q[r]) - 1 ELSE Len(q[r])
  BY DEF Differ
<1>2. a = [r \in K |-> IF r \in rs THEN p[r] - 1 ELSE p[r]]
  BY DEF ReduceResource
<1>3. DOMAIN p = Q /\ \A r \in Q : p[r] = Len(q[r])
  OBVIOUS
<1>4. \A r : r \in K <=> r \in Q /\ (r \notin rs \/ Len(q[r]) # 2)
  BY <1>3
<1>5. /\ \A r : r \in Q <=> r \in R /\ Len(q[r]) >= 2
      /\ \A r : r \in Z <=> r \in R /\ Len(z[r]) >= 2
  OBVIOUS
<1> HIDE DEF Q, Z, K, p, a
<1>6. K = Z
  <2>1. ASSUME NEW r PROVE r \in K <=> r \in Z
    <3>1. CASE r \in R /\ r \in rs
      <4>1. Len(z[r]) = Len(q[r]) - 1 /\ Len(q[r]) \in Nat
        BY <3>1, <1>1
      <4>2. (r \in Q <=> Len(q[r]) >= 2) /\ (r \in Z <=> Len(z[r]) >= 2)
        BY <3>1, <1>5
      <4>3. r \in K <=> r \in Q /\ Len(q[r]) # 2
        BY <3>1, <1>4
      <4>4. Len(z[r]) >= 2 <=> Len(q[r]) >= 2 /\ Len(q[r]) # 2
        BY <4>1, OneLess
      <4> QED  BY <4>2, <4>3, <4>4
    <3>2. CASE r \in R /\ r \notin rs
      <4>1. Len(z[r]) = Len(q[r])
        BY <3>2, <1>1
      <4> QED  BY <3>2, <4>1, <1>4, <1>5
    <3>3. CASE r \notin R
      BY <3>3, <1>4, <1>5
    <3> QED  BY <3>1, <3>2, <3>3
  <2> QED  BY <2>1
<1>7. \A r \in Z : (IF r \in rs THEN p[r] - 1 ELSE p[r]) = Len(z[r])
  BY <1>1, <1>3, <1>4, <1>5, <1>6
<1>8. a = [r \in Z |-> Len(z[r])]
  BY <1>2, <1>6, <1>7
<1> QED  BY <1>8 DEF Q, Z, p, a, Conflicts

LEMMA SameGraph ==
  ASSUME sys' = sys
  PROVE  Res' = Res /\ Nets' = Nets
BY DEF Res, Nets

(* What a net that is not at work occupies.                                 *)
Holds(n, r) == Routed(n) /\ r \in PathResources(n)

LEMMA PoolSays ==
  rt.pc # "idle" =>
    (PoolIsOccupancy <=>
       /\ \A r \in Res : IsInjective(occupy[r])
                         /\ \A n : n \in ToSet(occupy[r]) <=> n \in DOMAIN Nets /\ Holds(n, r)
       /\ pool = [r \in {q \in Res : Len(occupy[q]) >= 2} |-> Len(occupy[r])])
BY DEF PoolIsOccupancy, Holds

(* Steps that leave the lists alone, and the paths of the nets on them.     *)
LEMMA PoolStays ==
  ASSUME sys' = sys, rt.pc # "idle", PoolIsOccupancy, UNCHANGED <<occupy, pool>>,
         \A n \in DOMAIN Nets : \A r : Holds(n, r)' <=> Holds(n, r)
  PROVE  PoolIsOccupancy'
<1>1. CASE rt'.pc = "idle"
  BY <1>1 DEF PoolIsOccupancy
<1>2. CASE rt'.pc # "idle"
  <2>1. /\ \A r \in Res : IsInjective(occupy[r])
                          /\ \A n : n \in ToSet(occupy[r]) <=> n \in DOMAIN Nets /\ Holds(n, r)
        /\ pool = [r \in {q \in Res : Len(occupy[q]) >= 2} |-> Len(occupy[r])]
    BY PoolSays
  <2>2. /\ \A r \in Res' : IsInjective(occupy'[r])
                          /\ \A n : n \in ToSet(occupy'[r]) <=> n \in DOMAIN Nets' /\ Holds(n, r)'
        /\ pool' = [r \in {q \in Res' : Len(occupy'[q]) >= 2} |-> Len(occupy'[r])]
    BY <2>1, SameGraph
  <2> QED  BY <2>2 DEF PoolIsOccupancy, Holds
<1> QED  BY <1>1, <1>2

(* Before the first pass nobody holds anything.                             *)
LEMMA GoRoutingKeeps ==
  ASSUME sys' = sys, GoRouting
  PROVE  RouteIInv'
<1>1. /\ route' = [n \in DOMAIN Nets |-> [i \in DOMAIN Nets[n].targets |-> <<>>]]
      /\ occupy' = [r \in Res |-> <<>>] /\ pool' = <<>> /\ rt' = Turn(1)
  BY DEF GoRouting
<1>2. DOMAIN route' = DOMAIN Nets /\ \A n \in DOMAIN Nets : PathResources(n)' = {}
  <2>1. \A n \in DOMAIN Nets : \A i \in DOMAIN route'[n] : route'[n][i] = <<>>
    BY <1>1
  <2>2. ToSet(<<>>) = {}
    BY DEF ToSet
  <2> QED  BY <2>1, <2>2, <1>1 DEF PathResources
<1>3. /\ occupy' \in [Res -> Seq(DOMAIN Nets)]
      /\ \A r \in Res : occupy'[r] = <<>> /\ Len(occupy'[r]) = 0 /\ ToSet(occupy'[r]) = {}
                        /\ IsInjective(occupy'[r])
  <2>1. <<>> \in Seq(DOMAIN Nets) /\ Len(<<>>) = 0
    BY EmptySeq
  <2>2. ToSet(<<>>) = {} /\ IsInjective(<<>>)
    BY DEF ToSet, IsInjective
  <2> QED  BY <2>1, <2>2, <1>1
<1>4. pool' = [r \in {q \in Res : Len(occupy'[q]) >= 2} |-> Len(occupy'[r])]
  <2>1. {q \in Res : Len(occupy'[q]) >= 2} = {}
    BY <1>3
  <2> QED  BY <2>1, <1>1
<1>5. Nets' = Nets /\ Res' = Res
  BY SameGraph
<1>6. \A n \in DOMAIN Nets : \A r : ~Holds(n, r)'
  BY <1>2 DEF Holds
<1>7. PoolIsOccupancy'
  BY <1>3, <1>4, <1>5, <1>6 DEF PoolIsOccupancy, Holds
<1>8. Busy'
  <2>1. route' = [n \in DOMAIN Nets |-> route'[n]]
    BY <1>1
  <2>2. /\ DOMAIN rt' = {"pc", "net", "target", "first"}
        /\ rt'.pc \in {"net", "search"} => rt'.net \in DOMAIN Nets
        /\ rt'.pc \in {"check", "done"} => ~rt'.first
        /\ rt'.pc # "done"
        /\ rt'.first => rt'.net \in Nat \ {0}
    <3>1. CASE 1 \in DOMAIN Nets
      BY <1>1, <3>1 DEF Turn
    <3>2. CASE 1 \notin DOMAIN Nets
      BY <1>1, <3>2 DEF Turn
    <3> QED  BY <3>1, <3>2
  <2> QED  BY <2>1, <2>2, <1>2, <1>3, <1>5 DEF Busy
<1> QED  BY <1>7, <1>8 DEF RouteIInv

(* Steps that only search.                                                  *)
LEMMA SearchKeeps ==
  ASSUME sys' = sys, RouteIInv, rt.pc \notin {"idle", "check", "done"},
         UNCHANGED <<occupy, pool>>, route' = [route EXCEPT ![rt.net] = route'[rt.net]],
         DOMAIN rt' = DOMAIN rt, rt'.net = rt.net, rt'.first = rt.first,
         rt'.pc \in {"net", "search", "thrown"}, rt.pc \in {"net", "search"}
  PROVE  RouteIInv'
<1>1. Busy /\ PoolIsOccupancy
  BY DEF RouteIInv
<1>2. Nets' = Nets /\ Res' = Res
  BY SameGraph
<1>3. route' = [n \in DOMAIN Nets |-> route'[n]]
        /\ \A n \in DOMAIN Nets : n # rt.net => route'[n] = route[n]
  BY <1>1 DEF Busy
<1>4. \A n \in DOMAIN Nets : n # rt.net => PathResources(n)' = PathResources(n)
  BY <1>3 DEF PathResources
<1>5. \A n \in DOMAIN Nets : \A r : Holds(n, r)' <=> Holds(n, r)
  BY <1>4 DEF Holds, Routed
<1>6. PoolIsOccupancy'
  BY <1>1, <1>5, PoolStays
<1>7. Busy'
  <2>1. rt.first => \A n \in DOMAIN Nets : n \notin 1 .. rt.net => n # rt.net
    BY <1>1 DEF Busy
  <2> QED  BY <2>1, <1>1, <1>2, <1>3, <1>4 DEF Busy
<1> QED  BY <1>6, <1>7 DEF RouteIInv

(* A turn of the loops around the search: the next target, a node of the    *)
(* resource graph, the target, or no path.                                  *)
LEMMA SearchingKeeps ==
  ASSUME sys' = sys, RouteIInv, NextTarget \/ Expand \/ Found \/ NoPath
  PROVE  RouteIInv'
<1>1. rt.pc \in {"net", "search"} /\ UNCHANGED <<occupy, pool>>
  BY DEF NextTarget, Expand, Found, NoPath
<1>2. Busy
  BY <1>1 DEF RouteIInv
<1>3. rt.net \in DOMAIN route
  BY <1>1, <1>2 DEF Busy
<1>4. route' = [route EXCEPT ![rt.net] = route'[rt.net]]
  <2>1. CASE NextTarget \/ Expand \/ NoPath
    <3>1. route' = route
      BY <2>1 DEF NextTarget, Expand, NoPath
    <3> QED  BY <3>1, <1>2 DEF Busy
  <2>2. CASE Found
    BY <2>2, <1>3 DEF Found
  <2> QED  BY <2>1, <2>2
<1>5. /\ DOMAIN rt' = DOMAIN rt /\ rt'.net = rt.net /\ rt'.first = rt.first
      /\ rt'.pc \in {"net", "search", "thrown"}
  BY <1>1, <1>2 DEF Busy, NextTarget, Expand, Found, NoPath
<1> QED  BY <1>1, <1>4, <1>5, SearchKeeps

(* A net is recorded on the resources of its paths.                         *)
LEMMA RecordNetKeeps ==
  ASSUME sys' = sys, RouteIInv, RecordNet
  PROVE  RouteIInv'
<1> DEFINE n == rt.net
           rs == PathResources(n)
<1>1. Busy /\ PoolIsOccupancy /\ rt.pc = "net"
  BY DEF RecordNet, RouteIInv
<1>2. n \in DOMAIN Nets /\ occupy \in [Res -> Seq(DOMAIN Nets)]
  BY <1>1 DEF Busy
<1>3. \A m \in DOMAIN Nets : \A r : Holds(m, r) <=> m # n /\ r \in PathResources(m)
  BY <1>1 DEF Holds, Routed
<1>4. /\ \A r \in Res : IsInjective(occupy[r])
                        /\ \A m : m \in ToSet(occupy[r]) <=>
                                    m \in DOMAIN Nets /\ m # n /\ r \in PathResources(m)
      /\ pool = [r \in {q \in Res : Len(occupy[q]) >= 2} |-> Len(occupy[r])]
  BY <1>1, <1>3, PoolSays
<1>5. /\ occupy' = [r \in Res |-> IF r \in rs THEN Append(occupy[r], n) ELSE occupy[r]]
      /\ pool' = AddResource(pool, {r \in Res : r \in rs /\ Len(occupy'[r]) >= 2})
      /\ rt' = IF rt.first THEN Turn(n + 1)
                           ELSE [rt EXCEPT !.pc = "check", !.net = 0, !.target = 0]
      /\ route' = route
  BY DEF RecordNet, UpdateState
<1> HIDE DEF n, rs
<1>6. ASSUME NEW r \in Res
      PROVE  /\ occupy'[r] \in Seq(DOMAIN Nets) /\ IsInjective(occupy'[r])
             /\ Len(occupy'[r]) = IF r \in rs THEN Len(occupy[r]) + 1 ELSE Len(occupy[r])
             /\ \A m : m \in ToSet(occupy'[r]) <=> m \in DOMAIN Nets /\ r \in PathResources(m)
  <2>1. occupy[r] \in Seq(DOMAIN Nets) /\ IsInjective(occupy[r]) /\ n \notin ToSet(occupy[r])
    BY <1>2, <1>4
  <2>2. CASE r \in rs
    <3>1. occupy'[r] = Append(occupy[r], n)
      BY <1>5, <2>2
    <3>2. /\ occupy'[r] \in Seq(DOMAIN Nets) /\ Len(occupy'[r]) = Len(occupy[r]) + 1
          /\ IsInjective(occupy'[r]) /\ ToSet(occupy'[r]) = ToSet(occupy[r]) \cup {n}
      BY <3>1, <2>1, <1>2, Appended
    <3>3. r \in PathResources(n)
      BY <2>2 DEF rs
    <3> QED  BY <2>2, <3>2, <3>3, <1>2, <1>4
  <2>3. CASE r \notin rs
    <3>1. occupy'[r] = occupy[r]
      BY <1>5, <2>3
    <3>2. r \notin PathResources(n)
      BY <2>3 DEF rs
    <3> QED  BY <2>1, <2>3, <3>1, <3>2, <1>4
  <2> QED  BY <2>2, <2>3
<1>7. occupy' \in [Res -> Seq(DOMAIN Nets)]
  BY <1>5, <1>6
<1>8. pool' = [r \in {q \in Res : Len(occupy'[q]) >= 2} |-> Len(occupy'[r])]
  <2>1. Differ(Res, rs, occupy, occupy')
    BY <1>2, <1>6, LenProperties DEF Differ
  <2>2. AddResource(Conflicts(Res, occupy), Crowded(Res, rs, occupy')) = Conflicts(Res, occupy')
    BY <2>1, PoolGrows
  <2> QED  BY <2>2, <1>4, <1>5 DEF Conflicts, Crowded
<1>9. Nets' = Nets /\ Res' = Res /\ \A m : PathResources(m)' = PathResources(m)
  BY <1>5, SameGraph DEF PathResources
<1>10. /\ DOMAIN rt' = {"pc", "net", "target", "first"}
       /\ rt'.pc \in {"net", "search"} => rt'.net \in DOMAIN Nets
       /\ rt'.pc \in {"net", "check"}
       /\ rt'.pc = "check" => ~rt'.first
       /\ rt'.first => rt'.net = n + 1 /\ rt.first
       /\ rt'.pc = "net" => rt'.first
  <2>1. CASE rt.first
    <3>1. CASE n + 1 \in DOMAIN Nets
      BY <1>5, <2>1, <3>1 DEF Turn
    <3>2. CASE n + 1 \notin DOMAIN Nets
      BY <1>5, <2>1, <3>2 DEF Turn
    <3> QED  BY <3>1, <3>2
  <2>2. CASE ~rt.first
    BY <1>1, <1>5, <2>2 DEF Busy
  <2> QED  BY <2>1, <2>2
<1>11. rt'.first => /\ rt'.net \in Nat \ {0}
                    /\ \A m \in DOMAIN Nets : m \notin 1 .. rt'.net => PathResources(m) = {}
                    /\ rt'.net \in DOMAIN Nets => PathResources(rt'.net) = {}
  <2> SUFFICES ASSUME rt'.first
               PROVE  /\ rt'.net \in Nat \ {0}
                      /\ \A m \in DOMAIN Nets : m \notin 1 .. rt'.net => PathResources(m) = {}
                      /\ rt'.net \in DOMAIN Nets => PathResources(rt'.net) = {}
    OBVIOUS
  <2>1. n \in Nat \ {0} /\ rt'.net = n + 1
          /\ \A m \in DOMAIN Nets : m \notin 1 .. n => PathResources(m) = {}
    BY <1>1, <1>10 DEF Busy, n
  <2>2. (n + 1) \notin 1 .. n /\ \A m : m \notin 1 .. (n + 1) => m \notin 1 .. n
    BY <2>1
  <2> QED  BY <2>1, <2>2
<1>12. ASSUME NEW m \in DOMAIN Nets, NEW r
       PROVE  Holds(m, r)' <=> r \in PathResources(m)
  BY <1>9, <1>10, <1>11 DEF Holds, Routed
<1>13. PoolIsOccupancy'
  BY <1>6, <1>8, <1>9, <1>12 DEF PoolIsOccupancy, Holds
<1>14. Busy'
  BY <1>1, <1>5, <1>7, <1>9, <1>10, <1>11 DEF Busy
<1> QED  BY <1>13, <1>14 DEF RouteIInv

(* A net is taken up from all of its resources, to be routed again.         *)
LEMMA RipUpKeeps ==
  ASSUME sys' = sys, RouteIInv, RipUp
  PROVE  RouteIInv'
<1>1. Busy /\ PoolIsOccupancy /\ rt.pc = "check" /\ ~rt.first
  <2>1. Busy /\ PoolIsOccupancy /\ rt.pc = "check"
    BY DEF RipUp, RouteIInv
  <2> QED  BY <2>1 DEF Busy
<1>2. occupy \in [Res -> Seq(DOMAIN Nets)]
  BY <1>1 DEF Busy
<1>3. \A m \in DOMAIN Nets : \A r : Holds(m, r) <=> r \in PathResources(m)
  BY <1>1 DEF Holds, Routed
<1>4. /\ \A r \in Res : IsInjective(occupy[r])
                        /\ \A m : m \in ToSet(occupy[r]) <=>
                                    m \in DOMAIN Nets /\ r \in PathResources(m)
      /\ pool = [r \in {q \in Res : Len(occupy[q]) >= 2} |-> Len(occupy[r])]
  BY <1>1, <1>3, PoolSays
<1>5. PICK n \in NowConflictNet :
        /\ PopNet(n)
        /\ route' = [route EXCEPT ![n] = [i \in DOMAIN route[n] |-> <<>>]]
        /\ rt' = [rt EXCEPT !.pc = "net", !.net = n, !.target = 1]
  BY DEF RipUp
<1>6. n \in DOMAIN Nets
  <2>1. PICK r \in DOMAIN pool : n = Head(occupy[r])
    BY DEF NowConflictNet, MaxConflict
  <2>2. r \in Res /\ Len(occupy[r]) >= 2
    BY <1>4
  <2>3. occupy[r] \in Seq(DOMAIN Nets) /\ Head(occupy[r]) = occupy[r][1]
    BY <1>2, <2>2
  <2> QED  BY <2>1, <2>2, <2>3
<1> DEFINE rs == PathResources(n)
<1>7. /\ occupy' = [r \in Res |-> IF r \in rs THEN Erased(occupy[r], n) ELSE occupy[r]]
      /\ pool' = ReduceResource(pool, rs)
  BY <1>5 DEF PopNet
<1> HIDE DEF rs
<1>8. ASSUME NEW r \in Res
      PROVE  /\ occupy'[r] \in Seq(DOMAIN Nets) /\ IsInjective(occupy'[r])
             /\ Len(occupy'[r]) = IF r \in rs THEN Len(occupy[r]) - 1 ELSE Len(occupy[r])
             /\ \A m : m \in ToSet(occupy'[r]) <=>
                         m \in DOMAIN Nets /\ m # n /\ r \in PathResources(m)
  <2>1. occupy[r] \in Seq(DOMAIN Nets) /\ IsInjective(occupy[r])
    BY <1>2, <1>4
  <2>2. CASE r \in rs
    <3>1. r \in PathResources(n)
      BY <2>2 DEF rs
    <3>2. occupy'[r] = Erased(occupy[r], n) /\ n \in ToSet(occupy[r])
      BY <1>4, <1>6, <1>7, <2>2, <3>1
    <3>3. /\ occupy'[r] \in Seq(DOMAIN Nets) /\ Len(occupy'[r]) = Len(occupy[r]) - 1
          /\ IsInjective(occupy'[r]) /\ ToSet(occupy'[r]) = ToSet(occupy[r]) \ {n}
      BY <3>2, <2>1, ErasedOne
    <3> QED  BY <2>2, <3>3, <1>4
  <2>3. CASE r \notin rs
    <3>1. occupy'[r] = occupy[r]
      BY <1>7, <2>3
    <3>2. r \notin PathResources(n)
      BY <2>3 DEF rs
    <3> QED  BY <2>1, <2>3, <3>1, <3>2, <1>4
  <2> QED  BY <2>2, <2>3
<1>9. occupy' \in [Res -> Seq(DOMAIN Nets)]
  BY <1>7, <1>8
<1>10. pool' = [r \in {q \in Res : Len(occupy'[q]) >= 2} |-> Len(occupy'[r])]
  <2>1. Differ(Res, rs, occupy', occupy) /\ \A r \in Res : Len(occupy[r]) \in Nat
    <3>1. \A r \in Res : /\ Len(occupy[r]) \in Nat /\ Len(occupy'[r]) \in Nat
                         /\ Len(occupy'[r]) = IF r \in rs THEN Len(occupy[r]) - 1 ELSE Len(occupy[r])
      BY <1>2, <1>8, LenProperties
    <3> QED  BY <3>1 DEF Differ
  <2>2. ReduceResource(Conflicts(Res, occupy), rs) = Conflicts(Res, occupy')
    BY <2>1, PoolShrinks
  <2> QED  BY <2>2, <1>4, <1>7 DEF Conflicts
<1>11. /\ Nets' = Nets /\ Res' = Res
       /\ route' = [m \in DOMAIN Nets |-> route'[m]]
       /\ \A m : m # n => PathResources(m)' = PathResources(m)
  <2>1. route = [m \in DOMAIN Nets |-> route[m]]
    BY <1>1 DEF Busy
  <2>2. \A m : m # n => route'[m] = route[m]
    BY <1>5, <2>1
  <2> QED  BY <1>5, <2>1, <2>2, SameGraph DEF PathResources
<1>12. /\ DOMAIN rt' = {"pc", "net", "target", "first"}
       /\ rt'.pc = "net" /\ rt'.net = n /\ ~rt'.first
  BY <1>1, <1>5 DEF Busy
<1>13. ASSUME NEW m \in DOMAIN Nets, NEW r
       PROVE  Holds(m, r)' <=> m # n /\ r \in PathResources(m)
  BY <1>11, <1>12 DEF Holds, Routed
<1>14. PoolIsOccupancy'
  BY <1>8, <1>10, <1>11, <1>13 DEF PoolIsOccupancy, Holds
<1>15. Busy'
  BY <1>6, <1>9, <1>11, <1>12 DEF Busy
<1> QED  BY <1>14, <1>15 DEF RouteIInv

(* Steps of other parts, and the end of routing.                            *)
LEMMA RouteStutters ==
  ASSUME sys' = sys, RouteIInv,
         UNCHANGED <<route, occupy, pool>>,
         \/ rt' = rt
         \/ (rt.pc = "check" /\ DOMAIN pool = {} /\ rt' = [rt EXCEPT !.pc = "done"])
  PROVE  RouteIInv'
<1>1. CASE rt.pc = "idle"
  <2>1. rt'.pc = "idle"
    BY <1>1
  <2> QED  BY <2>1 DEF RouteIInv
<1>2. CASE rt.pc # "idle"
  <2>1. Busy /\ PoolIsOccupancy
    BY <1>2 DEF RouteIInv
  <2>2. /\ Nets' = Nets /\ Res' = Res /\ \A m : PathResources(m)' = PathResources(m)
    BY SameGraph DEF PathResources
  <2>3. /\ DOMAIN rt' = DOMAIN rt /\ rt'.net = rt.net /\ rt'.first = rt.first
        /\ (rt'.pc = rt.pc \/ (rt.pc = "check" /\ DOMAIN pool = {} /\ rt'.pc = "done"))
    BY <2>1 DEF Busy
  <2>4. \A m \in DOMAIN Nets : \A r : Holds(m, r)' <=> Holds(m, r)
    BY <2>2, <2>3 DEF Holds, Routed
  <2>5. PoolIsOccupancy'
    BY <1>2, <2>1, <2>4, PoolStays
  <2>6. Busy'
    BY <2>1, <2>2, <2>3 DEF Busy
  <2> QED  BY <2>5, <2>6 DEF RouteIInv
<1> QED  BY <1>1, <1>2

-----------------------------------------------------------------------------
(* The invariant.                                                           *)

LEMMA InvariantStarts ==
  ASSUME Init
  PROVE  IInv
<1>1. PlaceIInv
  BY PlaceStarts DEF Init
<1>2. RouteIInv
  BY DEF Init, RouteInit, RouteIInv
<1> QED  BY <1>1, <1>2 DEF IInv

LEMMA InvariantKept ==
  ASSUME IInv, [Next]_vars
  PROVE  IInv'
<1>1. PlaceIInv /\ RouteIInv
  BY DEF IInv
<1>2. CASE Place
  <2>1. PlaceIInv'
    BY <1>1, <1>2, PlaceKeeps DEF Place
  <2>2. sys' = sys
    BY <1>2 DEF Place, PlaceNext, RandomGenerate, PutNode, InitCost, Sample,
                StandardDeviation, Over, StartMoves, MoveOnce
  <2>3. UNCHANGED <<route, occupy, pool, rt>>
    BY <1>2 DEF Place, routeVars
  <2>4. RouteIInv'
    BY <1>1, <2>2, <2>3, RouteStutters
  <2> QED  BY <2>1, <2>4 DEF IInv
<1>3. CASE Route
  <2>1. UNCHANGED placeVars /\ sys' = sys
    BY <1>3 DEF Route, placeVars
  <2>2. PlaceIInv'
    BY <1>1, <2>1, PlaceStutters
  <2>3. RouteIInv'
    <3>1. CASE GoRouting
      BY <2>1, <3>1, GoRoutingKeeps
    <3>2. CASE NextTarget \/ Expand \/ Found \/ NoPath
      BY <1>1, <2>1, <3>2, SearchingKeeps
    <3>3. CASE RecordNet
      BY <1>1, <2>1, <3>3, RecordNetKeeps
    <3>4. CASE RipUp
      BY <1>1, <2>1, <3>4, RipUpKeeps
    <3>5. CASE GenerateResult
      <4>1. /\ UNCHANGED <<route, occupy, pool>>
            /\ rt.pc = "check" /\ DOMAIN pool = {} /\ rt' = [rt EXCEPT !.pc = "done"]
        BY <3>5 DEF GenerateResult
      <4> QED  BY <1>1, <2>1, <4>1, RouteStutters
    <3> QED  BY <1>3, <3>1, <3>2, <3>3, <3>4, <3>5 DEF Route, RouteNext
  <2> QED  BY <2>2, <2>3 DEF IInv
<1>4. CASE Load \/ Ended \/ UNCHANGED vars
  <2>1. UNCHANGED placeVars /\ UNCHANGED routeVars
    BY <1>4 DEF Load, Ended, vars
  <2>2. PlaceIInv'
    BY <1>1, <2>1, PlaceStutters
  <2>3. RouteIInv'
    BY <1>1, <2>1, RouteStutters DEF placeVars, routeVars
  <2> QED  BY <2>2, <2>3 DEF IInv
<1> QED  BY <1>2, <1>3, <1>4 DEF Next

(* The invariant holds for every array, application and configuration: the  *)
(* boards, what is placed on them, the turn of each net and the counts, at  *)
(* every step of goMapping (mixed_mapping.cpp).                             *)
THEOREM Invariance == Spec => []IInv
<1>1. Init => IInv
  BY InvariantStarts
<1>2. IInv /\ [Next]_vars => IInv'
  BY InvariantKept
<1> QED  BY <1>1, <1>2, PTL DEF Spec

(* Whatever cords are drawn, whatever moves are accepted and however often  *)
(* the two boards change places, both are placements (placement_board.cpp:  *)
(* 139) and cost is the cost of the one the engine holds                    *)
(* (sa_engine.cpp:63-79).                                                   *)
THEOREM BoardsHold == Spec => []BoardsAgree
<1>1. IInv => BoardsAgree
  BY DEF IInv, PlaceIInv, BoardOK, StageOK, BoardsAgree, Placed
<1> QED  BY <1>1, Invariance, PTL

(* The counts that the engine adds and takes away are the numbers of nets   *)
(* on the resources, for any graph and any nets (routing_engine.cpp:59-80). *)
THEOREM PoolHolds == Spec => []PoolIsOccupancy
<1>1. IInv => PoolIsOccupancy
  BY DEF IInv, RouteIInv, PoolIsOccupancy
<1> QED  BY <1>1, Invariance, PTL

(* When the engine writes its result, no resource is on the paths of two    *)
(* nets (routing_engine.cpp:204).                                           *)
THEOREM ResultHasNoConflict == Spec => []NetsApart
<1>1. ASSUME IInv PROVE NetsApart
  <2> SUFFICES ASSUME rt.pc = "done", NEW r \in Res, NEW n \in DOMAIN Nets, NEW m \in DOMAIN Nets,
                      r \in PathResources(n), r \in PathResources(m)
               PROVE  n = m
    BY DEF NetsApart
  <2>1. Busy /\ PoolIsOccupancy
    BY <1>1 DEF IInv, RouteIInv
  <2>2. DOMAIN pool = {} /\ occupy \in [Res -> Seq(DOMAIN Nets)]
    BY <2>1 DEF Busy
  <2>3. Holds(n, r) /\ Holds(m, r)
    BY DEF Holds, Routed
  <2>4. n \in ToSet(occupy[r]) /\ m \in ToSet(occupy[r]) /\ ~(Len(occupy[r]) >= 2)
    BY <2>1, <2>2, <2>3, PoolSays
  <2>5. PICK i, j \in DOMAIN occupy[r] : n = occupy[r][i] /\ m = occupy[r][j]
    BY <2>4 DEF ToSet
  <2>6. i = j
    BY <2>2, <2>4, <2>5, LenProperties
  <2> QED  BY <2>5, <2>6
<1> QED  BY <1>1, Invariance, PTL

-----------------------------------------------------------------------------
(* Naturals, and functions that are chained.                                *)

(* Every set of natural numbers that is not empty has a least element.      *)
LEMMA LeastElement ==
  ASSUME NEW T, T \subseteq Nat, T # {}
  PROVE  \E x \in T : \A y \in T : x <= y
<1>1. IsWellFoundedOn(OpToRel(<, Nat), Nat)
  BY NatLessThanWellFounded
<1>2. PICK x \in T : \A y \in T : <<y, x>> \notin OpToRel(<, Nat)
  BY <1>1, WFMin
<1>3. ASSUME NEW y \in T PROVE x <= y
  <2>1. <<y, x>> \notin OpToRel(<, Nat) /\ <<y, x>> \in Nat \X Nat
    BY <1>2
  <2>2. ~ (y < x)
    BY <2>1 DEF OpToRel
  <2> QED BY <2>2
<1> QED
  BY <1>3

(* Induction for a set of natural numbers.                                  *)
LEMMA ByInduction ==
  ASSUME NEW M \in Nat, NEW S, 0 \in S, \A k \in 1 .. M : k - 1 \in S => k \in S
  PROVE  \A k \in 0 .. M : k \in S
<1> DEFINE T == {k \in 0 .. M : k \notin S}
<1> SUFFICES ASSUME T # {} PROVE FALSE
  OBVIOUS
<1>0. T \subseteq Nat
  OBVIOUS
<1> HIDE DEF T
<1>1. PICK x \in T : \A y \in T : x <= y
  BY <1>0, LeastElement
<1> USE DEF T
<1>2. x # 0 /\ x - 1 \in 0 .. M /\ x - 1 \notin T
  BY <1>1
<1> QED
  BY <1>1, <1>2

(* h goes from v through the functions of G.                                *)
Chain(h, M, v, G) == h[0] = v /\ \A k \in 1 .. M : h[k] = G[k][h[k-1]]

(* A chain of any length through functions that keep the sets V exists: the *)
(* folds of the model are defined.                                          *)
LEMMA Chained ==
  ASSUME NEW N \in Nat, NEW V, NEW v, v \in V[0], NEW G,
         \A k \in 1 .. N : \A x \in V[k-1] : G[k][x] \in V[k]
  PROVE  \E h \in [0 .. N -> UNION {V[k] : k \in 0 .. N}] :
           Chain(h, N, v, G) /\ \A k \in 0 .. N : h[k] \in V[k]
<1> DEFINE Rng == UNION {V[k] : k \in 0 .. N}
           S == {k \in 0 .. N : \E h \in [0 .. k -> Rng] :
                                  Chain(h, k, v, G) /\ \A m \in 0 .. k : h[m] \in V[m]}
<1>0. \A k \in 0 .. N : V[k] \subseteq Rng
  OBVIOUS
<1> HIDE DEF Rng
<1>1. 0 \in S
  <2> DEFINE h == [n \in 0 .. 0 |-> v]
  <2>1. h \in [0 .. 0 -> Rng] /\ Chain(h, 0, v, G) /\ \A m \in 0 .. 0 : h[m] \in V[m]
    BY <1>0 DEF Chain
  <2> HIDE DEF h
  <2> QED BY <2>1
<1>2. ASSUME NEW k \in 1 .. N, k - 1 \in S PROVE k \in S
  <2>1. PICK g \in [0 .. (k-1) -> Rng] : Chain(g, k-1, v, G) /\ \A m \in 0 .. (k-1) : g[m] \in V[m]
    BY <1>2
  <2> DEFINE h == [n \in 0 .. k |-> IF n = k THEN G[k][g[k-1]] ELSE g[n]]
  <2>2. G[k][g[k-1]] \in V[k] /\ k \in 0 .. N
    BY <2>1
  <2>3. \A m \in 0 .. k : h[m] \in V[m]
    <3>1. \A m \in 0 .. k : m # k => m \in 0 .. (k-1)
      OBVIOUS
    <3> QED BY <2>1, <2>2, <3>1
  <2>4. h \in [0 .. k -> Rng]
    <3>1. \A m \in 0 .. k : m \in 0 .. N
      OBVIOUS
    <3> QED BY <1>0, <2>3, <3>1
  <2>5. h[0] = v
    BY <2>1 DEF Chain
  <2>6. ASSUME NEW n \in 1 .. k PROVE h[n] = G[n][h[n-1]]
    <3>1. n - 1 \in 0 .. k /\ n - 1 # k /\ n \in 0 .. k
      OBVIOUS
    <3>2. h[n-1] = g[n-1]
      BY <3>1
    <3>3. CASE n = k
      BY <3>1, <3>2, <3>3
    <3>4. CASE n # k
      <4>1. h[n] = g[n] /\ n \in 1 .. (k-1)
        BY <3>1, <3>4
      <4> QED BY <2>1, <3>2, <4>1 DEF Chain
    <3> QED BY <3>3, <3>4
  <2>7. Chain(h, k, v, G)
    BY <2>5, <2>6 DEF Chain
  <2> HIDE DEF h
  <2> QED BY <2>2, <2>3, <2>4, <2>7
<1> HIDE DEF S
<1>3. \A k \in 0 .. N : k \in S
  BY <1>1, <1>2, ByInduction
<1>4. N \in S
  BY <1>3
<1> QED BY <1>4 DEF S, Rng

(* What each function of G takes to the next set of V is in the last one.   *)
LEMMA Followed ==
  ASSUME NEW N \in Nat, NEW V, NEW v, v \in V[0], NEW f, f[0] = v,
         \A k \in 1 .. N : f[k-1] \in V[k-1] => f[k] \in V[k]
  PROVE  f[N] \in V[N]
<1> DEFINE S == {k \in 0 .. N : f[k] \in V[k]}
<1>1. 0 \in S
  OBVIOUS
<1>2. \A k \in 1 .. N : k - 1 \in S => k \in S
  OBVIOUS
<1> HIDE DEF S
<1>3. \A k \in 0 .. N : k \in S
  BY <1>1, <1>2, ByInduction
<1>4. N \in S
  BY <1>3
<1> QED BY <1>4 DEF S

-----------------------------------------------------------------------------
(* What is pushed back in a loop.                                           *)

Pushed(f, n, g) == f = [i \in 0 .. n |-> IF i = 0 THEN <<>> ELSE Append(f[i - 1], g[i])]

(* The loop has a result.                                                   *)
LEMMA PushedOnce ==
  ASSUME NEW n \in Nat, NEW g
  PROVE  \E f : Pushed(f, n, g)
<1> DEFINE S == {g[j] : j \in 1 .. n}
           upTo(i) == [j \in 1 .. i |-> g[j]]
           f == [i \in 0 .. n |-> upTo(i)]
<1>1. ASSUME NEW i \in 0 .. n PROVE upTo(i) \in Seq(S) /\ Len(upTo(i)) = i
  <2>1. i \in Nat /\ \A j \in 1 .. i : g[j] \in S
    OBVIOUS
  <2> HIDE DEF S
  <2> QED BY <2>1, IsASeq, LenProperties
<1>2. upTo(0) = <<>>
  <2>1. upTo(0) \in Seq(S) /\ Len(upTo(0)) = 0
    BY <1>1
  <2> HIDE DEF upTo
  <2> QED BY <2>1, EmptySeq
<1>3. ASSUME NEW i \in 0 .. n, i # 0 PROVE upTo(i) = Append(upTo(i - 1), g[i])
  <2>1. i - 1 \in 0 .. n /\ g[i] \in S /\ (i - 1) + 1 = i
    BY <1>3
  <2>2. upTo(i - 1) \in Seq(S) /\ Len(upTo(i - 1)) = i - 1
    BY <1>1, <2>1
  <2> DEFINE a == Append(upTo(i - 1), g[i])
  <2>3. /\ a \in Seq(S) /\ Len(a) = i /\ a[i] = g[i]
        /\ \A j \in 1 .. (i - 1) : a[j] = upTo(i - 1)[j]
    <3> HIDE DEF S, upTo
    <3> QED BY <2>1, <2>2, AppendProperties
  <2>4. \A j \in 1 .. i : a[j] = g[j]
    <3> HIDE DEF a
    <3> QED BY <2>1, <2>3
  <2>5. a = [j \in 1 .. i |-> a[j]]
    <3> HIDE DEF a, S
    <3> QED BY <2>3, LenProperties
  <2>6. a = upTo(i)
    <3> HIDE DEF a
    <3> QED BY <2>4, <2>5
  <2> QED BY <2>6
<1>4. f = [i \in 0 .. n |-> IF i = 0 THEN <<>> ELSE Append(f[i - 1], g[i])]
  <2>1. ASSUME NEW i \in 0 .. n
        PROVE  f[i] = (IF i = 0 THEN <<>> ELSE Append(f[i - 1], g[i]))
    <3>1. f[i] = upTo(i) /\ (i # 0 => f[i - 1] = upTo(i - 1))
      <4> HIDE DEF upTo
      <4> QED OBVIOUS
    <3> HIDE DEF upTo, f
    <3> QED BY <1>2, <1>3, <3>1
  <2> HIDE DEF upTo
  <2> QED BY <2>1
<1> HIDE DEF f
<1> QED BY <1>4 DEF Pushed

(* It is what was pushed, one for one.                                      *)
LEMMA PushedAll ==
  ASSUME NEW n \in Nat, NEW g, NEW f, Pushed(f, n, g)
  PROVE  f[n] = [i \in 1 .. n |-> g[i]]
<1> DEFINE S == {g[j] : j \in 1 .. n}
           upTo(i) == [j \in 1 .. i |-> g[j]]
           V == [i \in 0 .. n |-> {upTo(i)}]
<1>1. f[0] = <<>> /\ \A i \in 1 .. n : f[i] = Append(f[i - 1], g[i])
  <2>1. \A i \in 0 .. n : f[i] = IF i = 0 THEN <<>> ELSE Append(f[i - 1], g[i])
    BY Zenon DEF Pushed
  <2>2. 0 \in 0 .. n /\ \A i \in 1 .. n : i \in 0 .. n /\ i # 0
    OBVIOUS
  <2> QED BY <2>1, <2>2
<1>2. \A i \in 1 .. n : Append(upTo(i - 1), g[i]) = upTo(i)
  <2> SUFFICES ASSUME NEW i \in 1 .. n PROVE Append(upTo(i - 1), g[i]) = upTo(i)
    OBVIOUS
  <2>1. i - 1 \in Nat /\ g[i] \in S /\ (i - 1) + 1 = i /\ \A j \in 1 .. (i - 1) : g[j] \in S
    OBVIOUS
  <2>2. upTo(i - 1) \in Seq(S) /\ Len(upTo(i - 1)) = i - 1
    <3> HIDE DEF S
    <3> QED BY <2>1, IsASeq, LenProperties
  <2> DEFINE a == Append(upTo(i - 1), g[i])
  <2>3. /\ a \in Seq(S) /\ Len(a) = i /\ a[i] = g[i]
        /\ \A j \in 1 .. (i - 1) : a[j] = upTo(i - 1)[j]
    <3> HIDE DEF S, upTo
    <3> QED BY <2>1, <2>2, AppendProperties
  <2>4. \A j \in 1 .. i : a[j] = g[j]
    <3> HIDE DEF a
    <3> QED BY <2>1, <2>3
  <2>5. a = [j \in 1 .. i |-> a[j]]
    <3> HIDE DEF a, S
    <3> QED BY <2>3, LenProperties
  <2>6. a = upTo(i)
    <3> HIDE DEF a
    <3> QED BY <2>4, <2>5
  <2> QED BY <2>6
<1>3. upTo(0) = <<>>
  OBVIOUS
<1>4. f[0] \in V[0] /\ \A i \in 1 .. n : f[i - 1] \in V[i - 1] => f[i] \in V[i]
  <2>1. V[0] = {upTo(0)} /\ \A i \in 1 .. n : V[i] = {upTo(i)} /\ V[i - 1] = {upTo(i - 1)}
    <3> HIDE DEF upTo
    <3> QED OBVIOUS
  <2>2. ASSUME NEW i \in 1 .. n, f[i - 1] = upTo(i - 1) PROVE f[i] = upTo(i)
    <3>1. f[i] = Append(upTo(i - 1), g[i])
      BY <1>1, <2>2
    <3> QED BY <1>2, <3>1
  <2>3. f[0] = upTo(0)
    BY <1>1, <1>3
  <2> HIDE DEF V, upTo
  <2> QED BY <2>1, <2>2, <2>3
<1>5. f[n] \in V[n]
  <2> DEFINE v == f[0]
  <2>1. v \in V[0] /\ f[0] = v
    BY <1>4
  <2> HIDE DEF V, v
  <2> QED BY <1>4, <2>1, Followed
<1> QED BY <1>5

-----------------------------------------------------------------------------
(* The elements of a set, one after the other.                              *)

ListIter(f, S, pick) ==
  f = [s \in SUBSET S |-> IF s = {} THEN <<>> ELSE Append(f[s \ {pick[s]}], pick[s])]

(* Taking an element away from a set leaves a smaller one.                  *)
LEMMA SubsetLess ==
  ASSUME NEW S, IsFiniteSet(S), NEW s \in SUBSET S, NEW x \in s
  PROVE  /\ Cardinality(s) \in 1 .. Cardinality(S) /\ Cardinality(S) \in Nat
         /\ s \ {x} \in SUBSET S /\ Cardinality(s \ {x}) = Cardinality(s) - 1
<1>1. IsFiniteSet(s) /\ Cardinality(s) <= Cardinality(S)
  BY FS_Subset
<1>2. Cardinality(s) \in Nat /\ Cardinality(S) \in Nat
  BY <1>1, FS_CardinalityType
<1>3. Cardinality(s) # 0
  BY <1>1, FS_EmptySet
<1>4. Cardinality(s \ {x}) = Cardinality(s) - 1
  BY <1>1, FS_RemoveElement
<1> QED BY <1>1, <1>2, <1>3, <1>4

(* The list of the elements of a set is defined.                            *)
LEMMA ListedOnce ==
  ASSUME NEW S, IsFiniteSet(S), NEW pick, \A s \in SUBSET S : s # {} => pick[s] \in s
  PROVE  \E f : ListIter(f, S, pick)
<1> DEFINE N == Cardinality(S)
           Fun == [SUBSET S -> Seq(S)]
           V == [k \in 0 .. N |-> Fun]
           v == [s \in SUBSET S |-> <<>>]
           More(h, s) == IF s = {} THEN <<>> ELSE Append(h[s \ {pick[s]}], pick[s])
           Step(h) == [s \in SUBSET S |-> More(h, s)]
           G == [k \in 1 .. N |-> [h \in V[k-1] |-> Step(h)]]
<1>1. N \in Nat
  BY FS_CardinalityType
<1>2. ASSUME NEW h \in Fun PROVE Step(h) \in Fun
  <2>1. ASSUME NEW s \in SUBSET S PROVE More(h, s) \in Seq(S)
    <3>1. CASE s = {}
      BY <3>1, EmptySeq
    <3>2. CASE s # {}
      <4>1. pick[s] \in s /\ pick[s] \in S /\ s \ {pick[s]} \in SUBSET S
        BY <3>2
      <4>2. h[s \ {pick[s]}] \in Seq(S)
        BY <4>1
      <4> QED BY <3>2, <4>1, <4>2, AppendProperties
    <3> QED BY <3>1, <3>2
  <2> HIDE DEF More
  <2> QED BY <2>1
<1>3. v \in Fun
  BY EmptySeq
<1> HIDE DEF v
<1>4. PICK h \in [0 .. N -> UNION {V[k] : k \in 0 .. N}] :
        Chain(h, N, v, G) /\ \A k \in 0 .. N : h[k] \in V[k]
  <2>1. \A k \in 1 .. N : \A x \in V[k-1] : G[k][x] \in V[k]
    <3> HIDE DEF Step, Fun
    <3> QED BY <1>1, <1>2
  <2>2. v \in V[0]
    BY <1>1, <1>3
  <2> HIDE DEF G, V
  <2> QED BY <1>1, <2>1, <2>2, Chained
<1>5. ASSUME NEW k \in 1 .. N PROVE h[k] = Step(h[k-1]) /\ h[k-1] \in Fun
  <2>1. k - 1 \in 0 .. N /\ h[k-1] \in V[k-1] /\ h[k-1] \in Fun
    <3> HIDE DEF Fun
    <3> QED BY <1>1, <1>4
  <2>2. h[k] = G[k][h[k-1]]
    BY <1>4 DEF Chain
  <2> HIDE DEF Step, Fun
  <2> QED BY <2>1, <2>2
<1>6. h[0] = v
  BY <1>4 DEF Chain
<1> DEFINE f == [s \in SUBSET S |-> h[Cardinality(s)][s]]
<1>7. ASSUME NEW s \in SUBSET S PROVE f[s] = More(f, s)
  <2>1. CASE s = {}
    <3>1. Cardinality(s) = 0
      BY <2>1, FS_EmptySet
    <3> QED BY <1>6, <2>1, <3>1 DEF v
  <2>2. CASE s # {}
    <3> DEFINE x == pick[s]
               c == Cardinality(s)
    <3>1. x \in s
      BY <2>2
    <3>2. c \in 1 .. N /\ s \ {x} \in SUBSET S /\ Cardinality(s \ {x}) = c - 1
      BY <3>1, SubsetLess
    <3>3. h[c][s] = Step(h[c-1])[s]
      BY <1>5, <3>2
    <3>4. Step(h[c-1])[s] = Append(h[c-1][s \ {x}], x)
      BY <2>2
    <3>5. f[s] = h[c][s] /\ f[s \ {x}] = h[c-1][s \ {x}]
      BY <3>2
    <3> HIDE DEF f, c, Step
    <3> QED BY <2>2, <3>3, <3>4, <3>5
  <2> QED BY <2>1, <2>2
<1>8. f = [s \in SUBSET S |-> f[s]]
  OBVIOUS
<1> HIDE DEF f
<1>9. f = [s \in SUBSET S |-> More(f, s)]
  <2> HIDE DEF More
  <2> QED BY <1>7, <1>8
<1> QED BY <1>9 DEF ListIter

(* It holds each of them.                                                   *)
LEMMA ListedAll ==
  ASSUME NEW S, IsFiniteSet(S), NEW pick, \A s \in SUBSET S : s # {} => pick[s] \in s,
         NEW f, ListIter(f, S, pick)
  PROVE  f[S] \in Seq(S) /\ \A x \in S : \E i \in DOMAIN f[S] : f[S][i] = x
<1> DEFINE N == Cardinality(S)
           Lists(q, s) == q \in Seq(S) /\ \A x \in s : \E i \in 1 .. Len(q) : q[i] = x
           T == {k \in 0 .. N : \A s \in SUBSET S : Cardinality(s) = k => Lists(f[s], s)}
<1>1. N \in Nat
  BY FS_CardinalityType
<1>2. ASSUME NEW s \in SUBSET S
      PROVE  f[s] = IF s = {} THEN <<>> ELSE Append(f[s \ {pick[s]}], pick[s])
  BY Zenon DEF ListIter
<1>3. 0 \in T
  <2>1. ASSUME NEW s \in SUBSET S, Cardinality(s) = 0 PROVE Lists(f[s], s)
    <3>1. s = {}
      <4>1. IsFiniteSet(s)
        BY FS_Subset
      <4> QED BY <2>1, <4>1, FS_EmptySet
    <3> QED BY <1>2, <3>1, EmptySeq
  <2> HIDE DEF Lists
  <2> QED BY <1>1, <2>1
<1>4. ASSUME NEW k \in 1 .. N, k - 1 \in T PROVE k \in T
  <2>1. ASSUME NEW s \in SUBSET S, Cardinality(s) = k PROVE Lists(f[s], s)
    <3> DEFINE x == pick[s]
               q == f[s \ {x}]
    <3>1. s # {}
      <4>1. Cardinality({}) = 0 /\ k # 0
        BY <1>1, FS_EmptySet
      <4> QED BY <2>1, <4>1
    <3>2. x \in s /\ x \in S
      BY <3>1
    <3>3. s \ {x} \in SUBSET S /\ Cardinality(s \ {x}) = k - 1
      BY <2>1, <3>2, SubsetLess
    <3>4. q \in Seq(S) /\ \A y \in s \ {x} : \E i \in 1 .. Len(q) : q[i] = y
      BY <1>4, <3>3
    <3>5. f[s] = Append(q, x)
      BY <1>2, <3>1
    <3> HIDE DEF q, x
    <3>6. /\ f[s] \in Seq(S) /\ Len(f[s]) = Len(q) + 1 /\ f[s][Len(q) + 1] = x
          /\ \A i \in 1 .. Len(q) : f[s][i] = q[i]
      BY <3>2, <3>4, <3>5, AppendProperties
    <3>7. Len(q) \in Nat
      BY <3>4, LenProperties
    <3>8. ASSUME NEW y \in s PROVE \E i \in 1 .. Len(f[s]) : f[s][i] = y
      <4>1. CASE y = x
        <5>1. Len(q) + 1 \in 1 .. Len(f[s])
          BY <3>6, <3>7
        <5> QED BY <3>6, <4>1, <5>1
      <4>2. CASE y # x
        <5>1. PICK i \in 1 .. Len(q) : q[i] = y
          BY <3>4, <4>2
        <5>2. i \in 1 .. Len(f[s])
          BY <3>6, <3>7
        <5> QED BY <3>6, <5>1, <5>2
      <4> QED BY <4>1, <4>2
    <3> QED BY <3>6, <3>8
  <2> HIDE DEF Lists
  <2> QED BY <1>1, <2>1
<1> HIDE DEF T
<1>5. N \in T
  <2>1. \A k \in 0 .. N : k \in T
    <3> HIDE DEF N
    <3> QED BY <1>1, <1>3, <1>4, ByInduction
  <2> QED BY <1>1, <2>1
<1>6. Lists(f[S], S)
  <2> HIDE DEF Lists
  <2> QED BY <1>5 DEF T
<1> QED BY <1>6, LenProperties

(* What Listed makes of a set.                                              *)
LEMMA ListedIs ==
  ASSUME NEW S, IsFiniteSet(S)
  PROVE  Listed(S) \in Seq(S) /\ \A x \in S : \E i \in DOMAIN Listed(S) : Listed(S)[i] = x
<1> DEFINE pick == [s \in SUBSET S |-> CHOOSE x \in s : TRUE]
           Satisfies(f) == f = [s \in SUBSET S |->
             IF s = {} THEN <<>> ELSE Append(f[s \ {CHOOSE x \in s : TRUE}], CHOOSE x \in s : TRUE)]
           iter == CHOOSE f : Satisfies(f)
<1>1. \A s \in SUBSET S : s # {} => pick[s] \in s
  OBVIOUS
<1>2. ASSUME NEW f PROVE ListIter(f, S, pick) <=> Satisfies(f)
  <2>1. [s \in SUBSET S |-> IF s = {} THEN <<>> ELSE Append(f[s \ {pick[s]}], pick[s])]
          = [s \in SUBSET S |->
             IF s = {} THEN <<>> ELSE Append(f[s \ {CHOOSE x \in s : TRUE}], CHOOSE x \in s : TRUE)]
    <3>1. \A s \in SUBSET S : pick[s] = CHOOSE x \in s : TRUE
      OBVIOUS
    <3> HIDE DEF pick
    <3> QED BY <3>1, Zenon
  <2> HIDE DEF pick
  <2> QED BY <2>1 DEF ListIter
<1> HIDE DEF pick
<1>3. \E f : Satisfies(f)
  <2> HIDE DEF Satisfies
  <2> QED BY <1>1, <1>2, ListedOnce
<1>4. Satisfies(iter)
  <2> HIDE DEF Satisfies
  <2> QED BY <1>3
<1>5. ListIter(iter, S, pick)
  BY <1>2, <1>4
<1>6. Listed(S) = iter[S]
  BY DEF Listed, FoldSet, MapThenFoldSet
<1> HIDE DEF iter
<1> QED BY <1>1, <1>5, <1>6, ListedAll

(* Sequences of sequences, one after the other.                             *)
LEMMA FlattenIn ==
  ASSUME NEW X, NEW seqs \in Seq(Seq(X))
  PROVE  FlattenSeq(seqs) \in Seq(X)
<1> DEFINE n == Len(seqs)
           Satisfies(f) == f = [i \in 1 .. n |-> IF i = 1 THEN seqs[i] ELSE f[i - 1] \o seqs[i]]
           flatten == CHOOSE f : Satisfies(f)
<1>1. n \in Nat /\ \A i \in 1 .. n : seqs[i] \in Seq(X)
  BY LenProperties, ElementOfSeq
<1>2. CASE n = 0
  BY <1>2, EmptySeq DEF FlattenSeq
<1>3. CASE n # 0
  <2> DEFINE m == n - 1
             V == [k \in 0 .. m |-> Seq(X)]
             G == [k \in 1 .. m |-> [s \in V[k-1] |-> s \o seqs[k + 1]]]
             v == seqs[1]
  <2>1. m \in Nat /\ \A k \in 1 .. m : k - 1 \in 0 .. m /\ k \in 0 .. m /\ k + 1 \in 1 .. n
    BY <1>1, <1>3
  <2>2. v \in Seq(X)
    BY <1>1, <1>3
  <2>3. ASSUME NEW k \in 1 .. m, NEW s \in Seq(X) PROVE s \o seqs[k + 1] \in Seq(X)
    BY <1>1, <2>1, ConcatProperties
  <2>4. PICK h \in [0 .. m -> UNION {V[k] : k \in 0 .. m}] :
          Chain(h, m, v, G) /\ \A k \in 0 .. m : h[k] \in V[k]
    <3>1. \A k \in 1 .. m : \A x \in V[k-1] : G[k][x] \in V[k]
      BY <2>1, <2>3
    <3>2. v \in V[0]
      BY <2>1, <2>2
    <3> HIDE DEF G, V, v, m
    <3> QED BY <2>1, <3>1, <3>2, Chained
  <2> HIDE DEF v
  <2>5. ASSUME NEW k \in 1 .. m PROVE h[k] = h[k-1] \o seqs[k + 1]
    <3>1. h[k-1] \in V[k-1] /\ h[k] = G[k][h[k-1]]
      BY <2>1, <2>4 DEF Chain
    <3> QED BY <3>1
  <2>6. Satisfies([i \in 1 .. n |-> h[i - 1]])
    <3> DEFINE f == [i \in 1 .. n |-> h[i - 1]]
    <3>1. ASSUME NEW i \in 1 .. n PROVE f[i] = IF i = 1 THEN seqs[i] ELSE f[i - 1] \o seqs[i]
      <4>1. CASE i = 1
        <5>1. h[0] = v
          BY <2>4 DEF Chain
        <5> QED BY <4>1, <5>1 DEF v
      <4>2. CASE i # 1
        <5>1. i - 1 \in 1 .. m /\ i - 1 \in 1 .. n /\ (i - 1) + 1 = i
          BY <1>1, <4>2
        <5>2. h[i - 1] = h[(i - 1) - 1] \o seqs[i]
          BY <2>5, <5>1
        <5> QED BY <4>2, <5>1, <5>2
      <4> QED BY <4>1, <4>2
    <3>2. f = [i \in 1 .. n |-> f[i]]
      OBVIOUS
    <3> HIDE DEF f
    <3>3. Satisfies(f)
      BY <3>1, <3>2
    <3> QED BY <3>3 DEF f
  <2>7. Satisfies(flatten)
    <3> HIDE DEF Satisfies
    <3> QED BY <2>6
  <2>8. FlattenSeq(seqs) = flatten[n]
    BY <1>3 DEF FlattenSeq
  <2> HIDE DEF flatten
  <2>9. flatten[1] = seqs[1] /\ \A k \in 1 .. m : flatten[k + 1] = flatten[k] \o seqs[k + 1]
    <3>1. \A i \in 1 .. n : flatten[i] = IF i = 1 THEN seqs[i] ELSE flatten[i - 1] \o seqs[i]
      BY <2>7, Zenon
    <3>2. 1 \in 1 .. n /\ \A k \in 1 .. m : k + 1 \in 1 .. n /\ k + 1 # 1 /\ (k + 1) - 1 = k
      BY <1>1, <1>3
    <3> HIDE DEF Satisfies, m, n
    <3> QED BY <3>1, <3>2
  <2> DEFINE f == [k \in 0 .. m |-> flatten[k + 1]]
  <2>10. f[m] \in V[m]
    <3>1. f[0] = v /\ f[m] = flatten[n]
      BY <1>1, <2>1, <2>9 DEF v
    <3>2. ASSUME NEW k \in 1 .. m, f[k-1] \in V[k-1] PROVE f[k] \in V[k]
      <4>1. f[k] = flatten[k] \o seqs[k + 1] /\ f[k-1] = flatten[k]
        <5>1. f[k] = flatten[k + 1] /\ f[k-1] = flatten[(k - 1) + 1] /\ (k - 1) + 1 = k
          BY <2>1
        <5> HIDE DEF f, m
        <5> QED BY <2>9, <5>1
      <4>2. flatten[k] \in Seq(X)
        BY <2>1, <3>2, <4>1
      <4> QED BY <2>1, <2>3, <4>1, <4>2
    <3>3. v \in V[0]
      BY <2>1, <2>2
    <3> HIDE DEF f, V, m
    <3> QED BY <2>1, <3>1, <3>2, <3>3, Followed
  <2>11. f[m] = flatten[n] /\ V[m] = Seq(X)
    BY <1>1, <2>1
  <2> HIDE DEF f, V, m
  <2> QED BY <2>8, <2>10, <2>11
<1> QED BY <1>2, <1>3

-----------------------------------------------------------------------------
(* The resource graph.                                                      *)

(* The image of a finite set is finite.                                     *)
LEMMA ImageFinite ==
  ASSUME NEW S, IsFiniteSet(S), NEW f
  PROVE  IsFiniteSet({f[x] : x \in S})
<1> DEFINE T == {f[x] : x \in S}
           g == [x \in S |-> f[x]]
<1>1. g \in [S -> T] /\ \A y \in T : \E x \in S : g[x] = y
  OBVIOUS
<1> HIDE DEF g, T
<1>2. g \in Surjection(S, T)
  BY <1>1 DEF Surjection
<1>3. IsFiniteSet(T)
  BY <1>2, FS_Surjection
<1> QED BY <1>3 DEF T

(* An array has finitely many blocks and ports.                             *)
LEMMA PortsFinite ==
  ASSUME NEW a, ArchOK(a)
  PROVE  IsFiniteSet(BlocksOf(a)) /\ IsFiniteSet(PortsOf(a))
<1> DEFINE T == DOMAIN a.block
           C == (0 .. (a.rows - 1)) \X (0 .. (a.rows - 1))
           At == [p \in T \X C |-> [type |-> p[1], cord |-> p[2]]]
<1>1. a.rows \in Nat /\ IsFiniteSet(T) /\ \A b \in BlocksOf(a) : b.cord \in C
  BY DEF ArchOK
<1>2. IsFiniteSet(T \X C)
  <2>1. IsFiniteSet(0 .. (a.rows - 1))
    BY <1>1, FS_Interval
  <2>2. IsFiniteSet(C)
    BY <2>1, FS_Product
  <2> HIDE DEF C, T
  <2> QED BY <1>1, <2>2, FS_Product
<1>3. BlocksOf(a) \subseteq {At[p] : p \in T \X C}
  <2> SUFFICES ASSUME NEW b \in BlocksOf(a) PROVE \E p \in T \X C : b = At[p]
    OBVIOUS
  <2>1. PICK t \in T : b \in {[type |-> t, cord |-> c] : c \in a.block[t].position}
    BY Zenon DEF BlocksOf
  <2>2. PICK c \in a.block[t].position : b = [type |-> t, cord |-> c]
    BY <2>1
  <2>3. c \in C
    <3> HIDE DEF C
    <3> QED BY <1>1, <2>2
  <2>4. <<t, c>> \in T \X C
    BY <2>3
  <2>5. At[<<t, c>>] = [type |-> t, cord |-> c]
    <3> HIDE DEF C, T
    <3> QED BY <2>4
  <2> HIDE DEF At, C, T
  <2> QED BY <2>2, <2>4, <2>5
<1>4. IsFiniteSet({At[p] : p \in T \X C})
  <2> HIDE DEF At, T, C
  <2> QED BY <1>2, ImageFinite
<1> HIDE DEF At, T, C
<1>5. IsFiniteSet(BlocksOf(a))
  <2> DEFINE U == {At[p] : p \in T \X C}
  <2>1. BlocksOf(a) \in SUBSET U /\ IsFiniteSet(U)
    BY <1>3, <1>4
  <2> HIDE DEF U
  <2> QED BY <2>1, FS_Subset
<1> DEFINE Of(b, direction, function, n) ==
             {PortPos(b.type, b.cord, direction, function, i) : i \in 0 .. (n - 1)}
           All(b) == Of(b, "in", "normal", a.block[b.type].in) \cup Of(b, "out", "normal", a.block[b.type].out)
                       \cup Of(b, "in", "router", a.block[b.type].router)
                       \cup Of(b, "out", "router", a.block[b.type].router)
<1>6. ASSUME NEW b, NEW direction, NEW function, NEW n \in Nat
      PROVE  IsFiniteSet(Of(b, direction, function, n))
  <2> DEFINE f == [i \in 0 .. (n - 1) |-> PortPos(b.type, b.cord, direction, function, i)]
  <2>1. IsFiniteSet(0 .. (n - 1))
    BY FS_Interval
  <2>2. IsFiniteSet({f[i] : i \in 0 .. (n - 1)})
    <3> HIDE DEF f
    <3> QED BY <2>1, ImageFinite
  <2>3. Of(b, direction, function, n) = {f[i] : i \in 0 .. (n - 1)}
    OBVIOUS
  <2> HIDE DEF f, Of
  <2> QED BY <2>2, <2>3
<1>7. ASSUME NEW b \in BlocksOf(a) PROVE IsFiniteSet(All(b))
  <2>1. b.type \in DOMAIN a.block
    BY DEF BlocksOf
  <2>2. {a.block[b.type].in, a.block[b.type].out, a.block[b.type].router} \subseteq Nat
    BY <2>1 DEF ArchOK
  <2> HIDE DEF Of
  <2>3. /\ IsFiniteSet(Of(b, "in", "normal", a.block[b.type].in))
        /\ IsFiniteSet(Of(b, "out", "normal", a.block[b.type].out))
        /\ IsFiniteSet(Of(b, "in", "router", a.block[b.type].router))
        /\ IsFiniteSet(Of(b, "out", "router", a.block[b.type].router))
    BY <1>6, <2>2
  <2> QED BY <2>3, FS_Union
<1>8. PortsOf(a) = UNION {All(b) : b \in BlocksOf(a)}
  BY DEF PortsOf
<1> HIDE DEF All
<1>9. IsFiniteSet({All(b) : b \in BlocksOf(a)})
  <2> DEFINE f == [b \in BlocksOf(a) |-> All(b)]
  <2>1. {All(b) : b \in BlocksOf(a)} = {f[b] : b \in BlocksOf(a)}
    OBVIOUS
  <2> HIDE DEF f
  <2> QED BY <1>5, <2>1, ImageFinite
<1>10. IsFiniteSet(PortsOf(a))
  <2> DEFINE U == {All(b) : b \in BlocksOf(a)}
  <2>1. IsFiniteSet(U) /\ \A x \in U : IsFiniteSet(x)
    BY <1>7, <1>9
  <2>2. PortsOf(a) = UNION U
    BY <1>8
  <2> HIDE DEF U
  <2> QED BY <2>1, <2>2, FS_UNION
<1> QED BY <1>5, <1>10

Resource(a) ==
  {[kind |-> "block", type |-> b.type, cord |-> b.cord] : b \in BlocksOf(a)}
  \cup {[kind |-> "port", pos |-> p] : p \in PortsOf(a)}
  \cup {[kind |-> "wire", from |-> w[1], to |-> w[2]] : w \in PortsOf(a) \X PortsOf(a)}
  \cup {[kind |-> "segment", from |-> s.sources, to |-> s.targets] : s \in ToSet(a.segments)}

(* The wires, as resources.                                                 *)
LEMMA WireNetIn ==
  ASSUME NEW a, ArchOK(a)
  PROVE  WireNet(a) \in Seq(Resource(a))
<1> DEFINE n == Len(a.nets)
           W(i) == {[kind |-> "wire", from |-> w[1], to |-> w[2]] : w \in Generate(a, a.nets[i])}
           f == [i \in DOMAIN a.nets |-> Listed(W(i))]
<1>1. n \in Nat /\ DOMAIN a.nets = 1 .. n
  BY LenProperties DEF ArchOK
<1>2. ASSUME NEW i \in DOMAIN a.nets PROVE Listed(W(i)) \in Seq(Resource(a))
  <2> DEFINE g == [w \in Generate(a, a.nets[i]) |-> [kind |-> "wire", from |-> w[1], to |-> w[2]]]
  <2>1. Generate(a, a.nets[i]) \in SUBSET (PortsOf(a) \X PortsOf(a))
    BY DEF ArchOK
  <2>2. IsFiniteSet(PortsOf(a) \X PortsOf(a))
    BY PortsFinite, FS_Product
  <2>3. IsFiniteSet(Generate(a, a.nets[i]))
    BY <2>1, <2>2, FS_Subset
  <2>4. W(i) = {g[w] : w \in Generate(a, a.nets[i])}
    OBVIOUS
  <2>5. IsFiniteSet(W(i))
    <3>1. IsFiniteSet({g[w] : w \in Generate(a, a.nets[i])})
      <4> HIDE DEF g
      <4> QED BY <2>3, ImageFinite
    <3> HIDE DEF g, W
    <3> QED BY <2>4, <3>1
  <2>6. W(i) \subseteq Resource(a)
    BY <2>1 DEF Resource
  <2> HIDE DEF W
  <2>7. Listed(W(i)) \in Seq(W(i))
    BY <2>5, ListedIs
  <2> QED BY <2>6, <2>7, SeqMonotonic
<1> HIDE DEF W
<1>3. f \in Seq(Seq(Resource(a)))
  BY <1>1, <1>2, IsASeq
<1>4. WireNet(a) = FlattenSeq(f)
  BY DEF WireNet, W
<1> HIDE DEF f
<1> QED BY <1>3, <1>4, FlattenIn

(* The segments, as resources.                                              *)
LEMMA SegmentNetIn ==
  ASSUME NEW a, ArchOK(a)
  PROVE  SegmentNet(a) \in Seq(Resource(a))
<1> DEFINE n == Len(a.segments)
           S(i) == [ch \in 1 .. a.segments[i].channels |->
                      [kind |-> "segment", from |-> a.segments[i].sources, to |-> a.segments[i].targets]]
           f == [i \in DOMAIN a.segments |-> S(i)]
<1>1. n \in Nat /\ DOMAIN a.segments = 1 .. n
  BY LenProperties DEF ArchOK
<1>2. ASSUME NEW i \in DOMAIN a.segments PROVE S(i) \in Seq(Resource(a))
  <2> DEFINE r == [kind |-> "segment", from |-> a.segments[i].sources, to |-> a.segments[i].targets]
  <2>1. a.segments[i] \in ToSet(a.segments)
    BY DEF ToSet
  <2>2. r \in Resource(a)
    BY <2>1 DEF Resource
  <2>3. a.segments[i].channels \in Nat
    BY DEF ArchOK
  <2> HIDE DEF r
  <2>4. [ch \in 1 .. a.segments[i].channels |-> r] \in Seq(Resource(a))
    BY <2>2, <2>3, IsASeq
  <2> QED BY <2>4 DEF r
<1> HIDE DEF S
<1>3. f \in Seq(Seq(Resource(a)))
  BY <1>1, <1>2, IsASeq
<1>4. SegmentNet(a) = FlattenSeq(f)
  BY DEF SegmentNet, S
<1> HIDE DEF f
<1> QED BY <1>3, <1>4, FlattenIn

(* What is in front stays at its place.                                     *)
LEMMA InFront ==
  ASSUME NEW X, NEW s \in Seq(X), NEW t \in Seq(X), NEW j \in 1 .. Len(s)
  PROVE  j \in 1 .. Len(s \o t) /\ (s \o t)[j] = s[j]
<1>1. Len(s) \in Nat /\ Len(t) \in Nat /\ Len(s \o t) = Len(s) + Len(t)
  BY LenProperties, ConcatProperties
<1>2. j \in 1 .. Len(s) + Len(t) /\ j <= Len(s)
  BY <1>1
<1> QED BY <1>1, <1>2, ConcatProperties

(* The vector of resources: every port is in it.                            *)
LEMMA ResourcesIs ==
  ASSUME NEW a, ArchOK(a)
  PROVE  /\ Resources(a) \in Seq(Resource(a))
         /\ \A p \in PortsOf(a) :
              \E i \in DOMAIN Resources(a) : Resources(a)[i] = [kind |-> "port", pos |-> p]
<1> DEFINE B == {[kind |-> "block", type |-> b.type, cord |-> b.cord] : b \in BlocksOf(a)}
           P == {[kind |-> "port", pos |-> p] : p \in PortsOf(a)}
           s1 == Listed(B)
           s2 == Listed(P)
           X == Resource(a)
<1>1. IsFiniteSet(B) /\ IsFiniteSet(P)
  <2> DEFINE f == [b \in BlocksOf(a) |-> [kind |-> "block", type |-> b.type, cord |-> b.cord]]
             g == [p \in PortsOf(a) |-> [kind |-> "port", pos |-> p]]
  <2>1. B = {f[b] : b \in BlocksOf(a)} /\ P = {g[p] : p \in PortsOf(a)}
    OBVIOUS
  <2>2. IsFiniteSet({f[b] : b \in BlocksOf(a)})
    <3> HIDE DEF f
    <3> QED BY PortsFinite, ImageFinite
  <2>3. IsFiniteSet({g[p] : p \in PortsOf(a)})
    <3> HIDE DEF g
    <3> QED BY PortsFinite, ImageFinite
  <2> HIDE DEF f, g, B, P
  <2> QED BY <2>1, <2>2, <2>3
<1>2. B \subseteq X /\ P \subseteq X
  BY DEF Resource
<1>3. s1 \in Seq(X) /\ s2 \in Seq(X) /\ \A x \in P : \E i \in DOMAIN s2 : s2[i] = x
  <2> HIDE DEF B, P, X
  <2> QED BY <1>1, <1>2, ListedIs, SeqMonotonic
<1>4. WireNet(a) \in Seq(X) /\ SegmentNet(a) \in Seq(X)
  BY WireNetIn, SegmentNetIn
<1>5. Resources(a) = ((s1 \o s2) \o WireNet(a)) \o SegmentNet(a)
  BY DEF Resources, Elements
<1>6. P = {[kind |-> "port", pos |-> p] : p \in PortsOf(a)}
  OBVIOUS
<1> HIDE DEF B, P, X, s1, s2
<1>7. s1 \o s2 \in Seq(X) /\ (s1 \o s2) \o WireNet(a) \in Seq(X) /\ Resources(a) \in Seq(X)
  BY <1>3, <1>4, <1>5, ConcatProperties
<1>8. ASSUME NEW p \in PortsOf(a)
      PROVE  \E i \in DOMAIN Resources(a) : Resources(a)[i] = [kind |-> "port", pos |-> p]
  <2>1. PICK i \in DOMAIN s2 : s2[i] = [kind |-> "port", pos |-> p]
    BY <1>3, <1>6
  <2> DEFINE t1 == s1 \o s2
             t2 == t1 \o WireNet(a)
             j == Len(s1) + i
  <2>2. Len(s1) \in Nat /\ i \in 1 .. Len(s2) /\ Len(s2) \in Nat
    BY <1>3, LenProperties
  <2>3. Len(t1) = Len(s1) + Len(s2) /\ j \in 1 .. Len(t1) /\ j - Len(s1) = i /\ ~ (j <= Len(s1))
    BY <1>3, <2>2, ConcatProperties
  <2>4. t1[j] = s2[i]
    BY <1>3, <2>2, <2>3, ConcatProperties
  <2>5. t1 \in Seq(X) /\ t2 \in Seq(X) /\ Resources(a) = t2 \o SegmentNet(a)
    BY <1>5, <1>7
  <2> HIDE DEF j, t1
  <2>6. j \in 1 .. Len(t2) /\ t2[j] = t1[j]
    BY <1>4, <2>3, <2>5, InFront
  <2> HIDE DEF t2
  <2>7. j \in 1 .. Len(Resources(a)) /\ Resources(a)[j] = t2[j]
    BY <1>4, <2>5, <2>6, InFront
  <2>8. j \in DOMAIN Resources(a)
    BY <1>7, <2>7, LenProperties
  <2> QED BY <2>1, <2>4, <2>6, <2>7, <2>8
<1> QED BY <1>7, <1>8 DEF X

-----------------------------------------------------------------------------
(* The systems, their graphs and nets.                                      *)

(* The system that is placed and routed is one of those given.              *)
LEMMA SystemIs ==
  ASSUME sys \in DOMAIN Systems
  PROVE  Len(Systems) \in Nat /\ sys \in 1 .. Len(Systems) /\ DOMAIN Systems = 1 .. Len(Systems) /\ ArchOK(Arch)
<1>1. Systems \in Seq(ToSet(Systems)) /\ ArchOK(Arch)
  BY SystemAssumption DEF SystemAssumption, Arch
<1> QED BY <1>1, LenProperties

(* The graphs of all the systems.                                           *)
LEMMA GraphAll ==
  ASSUME sys \in DOMAIN Systems
  PROVE  Graph = [i \in 1 .. Len(Systems) |-> ResourceGraph(Systems[i].arch)]
<1> DEFINE n == Len(Systems)
           g == [i \in 1 .. n |-> ResourceGraph(Systems[i].arch)]
           Satisfies(f) == f = [i \in 0 .. n |->
             IF i = 0 THEN <<>> ELSE Append(f[i - 1], ResourceGraph(Systems[i].arch))]
           pushed == CHOOSE f : Satisfies(f)
<1>1. n \in Nat /\ sys \in 1 .. n
  BY SystemIs
<1>2. ASSUME NEW f PROVE Pushed(f, n, g) <=> Satisfies(f)
  <2>1. \A i \in 0 .. n : i # 0 => g[i] = ResourceGraph(Systems[i].arch)
    BY <1>1
  <2>2. [i \in 0 .. n |-> IF i = 0 THEN <<>> ELSE Append(f[i - 1], g[i])]
          = [i \in 0 .. n |-> IF i = 0 THEN <<>> ELSE Append(f[i - 1], ResourceGraph(Systems[i].arch))]
    <3> HIDE DEF g, n
    <3> QED BY <2>1
  <2> HIDE DEF g, n
  <2> QED BY <2>2 DEF Pushed
<1>3. Satisfies(pushed)
  <2>1. \E f : Satisfies(f)
    <3> HIDE DEF Satisfies, g, n
    <3> QED BY <1>1, <1>2, PushedOnce
  <2> HIDE DEF Satisfies
  <2> QED BY <2>1
<1>4. Graph = pushed[n]
  BY DEF Graph, Mapped
<1> HIDE DEF pushed
<1>5. pushed[n] = [i \in 1 .. n |-> g[i]]
  <2>1. Pushed(pushed, n, g)
    BY <1>2, <1>3
  <2> HIDE DEF Satisfies, g, n
  <2> QED BY <1>1, <2>1, PushedAll
<1> HIDE DEF Satisfies, pushed
<1> QED BY <1>1, <1>4, <1>5

(* The graph of the system.                                                 *)
LEMMA GraphIs ==
  ASSUME sys \in DOMAIN Systems
  PROVE  Graph[sys] = ResourceGraph(Arch)
BY SystemIs, GraphAll DEF Arch

(* The nets of the system.                                                  *)
LEMMA NetsIs ==
  ASSUME sys \in DOMAIN Systems
  PROVE  Nets = GenerateAllNet(Dfg)
<1> DEFINE n == Len(Systems)
           g == [i \in 1 .. n |-> GenerateAllNet(Systems[i].dfg)]
           Satisfies(f) == f = [i \in 0 .. n |->
             IF i = 0 THEN <<>> ELSE Append(f[i - 1], GenerateAllNet(Systems[i].dfg))]
           pushed == CHOOSE f : Satisfies(f)
<1>1. n \in Nat /\ sys \in 1 .. n
  BY SystemIs
<1>2. ASSUME NEW f PROVE Pushed(f, n, g) <=> Satisfies(f)
  <2>1. \A i \in 0 .. n : i # 0 => g[i] = GenerateAllNet(Systems[i].dfg)
    BY <1>1
  <2>2. [i \in 0 .. n |-> IF i = 0 THEN <<>> ELSE Append(f[i - 1], g[i])]
          = [i \in 0 .. n |-> IF i = 0 THEN <<>> ELSE Append(f[i - 1], GenerateAllNet(Systems[i].dfg))]
    <3> HIDE DEF g, n
    <3> QED BY <2>1
  <2> HIDE DEF g, n
  <2> QED BY <2>2 DEF Pushed
<1>3. Satisfies(pushed)
  <2>1. \E f : Satisfies(f)
    <3> HIDE DEF Satisfies, g, n
    <3> QED BY <1>1, <1>2, PushedOnce
  <2> HIDE DEF Satisfies
  <2> QED BY <2>1
<1>4. AllNets = pushed[n]
  BY DEF AllNets, Mapped
<1> HIDE DEF pushed
<1>5. pushed[n] = [i \in 1 .. n |-> g[i]]
  <2>1. Pushed(pushed, n, g)
    BY <1>2, <1>3
  <2> HIDE DEF Satisfies, g, n
  <2> QED BY <1>1, <2>1, PushedAll
<1> HIDE DEF Satisfies
<1> QED BY <1>1, <1>4, <1>5 DEF Dfg, Nets

(* The resources of the graph, and what follows each of them.               *)
LEMMA NextIs ==
  ASSUME sys \in DOMAIN Systems
  PROVE  /\ Graph[sys].res = Resources(Arch) /\ Res = DOMAIN Resources(Arch)
         /\ \A r \in Res : NextOf(r) = {j \in Res : Follows(Graph[sys].res[r], Graph[sys].res[j])}
<1> DEFINE res == Resources(Arch)
           n == Len(res)
           g == [i \in 1 .. n |-> {j \in DOMAIN res : Follows(res[i], res[j])}]
           Satisfies(f) == f = [i \in 0 .. n |->
             IF i = 0 THEN <<>> ELSE Append(f[i - 1], {j \in DOMAIN res : Follows(res[i], res[j])})]
           pushed == CHOOSE f : Satisfies(f)
<1>1. n \in Nat /\ DOMAIN res = 1 .. n
  <2>1. res \in Seq(Resource(Arch))
    BY SystemIs, ResourcesIs
  <2> QED BY <2>1, LenProperties
<1>2. ASSUME NEW f PROVE Pushed(f, n, g) <=> Satisfies(f)
  <2>1. \A i \in 0 .. n : i # 0 => g[i] = {j \in DOMAIN res : Follows(res[i], res[j])}
    <3> HIDE DEF res
    <3> QED BY <1>1
  <2>2. [i \in 0 .. n |-> IF i = 0 THEN <<>> ELSE Append(f[i - 1], g[i])]
          = [i \in 0 .. n |-> IF i = 0 THEN <<>> ELSE Append(f[i - 1], {j \in DOMAIN res : Follows(res[i], res[j])})]
    <3> HIDE DEF g, n, res
    <3> QED BY <2>1, Zenon
  <2> HIDE DEF g, n, res
  <2> QED BY <2>2 DEF Pushed
<1>3. Satisfies(pushed)
  <2>1. \E f : Satisfies(f)
    <3> HIDE DEF Satisfies, g, n
    <3> QED BY <1>1, <1>2, PushedOnce
  <2> HIDE DEF Satisfies
  <2> QED BY <2>1
<1>4. ResourceGraph(Arch) = [res |-> res, next |-> pushed[n]]
  BY DEF ResourceGraph, Mapped
<1> HIDE DEF pushed
<1>5. pushed[n] = [i \in 1 .. n |-> g[i]]
  <2>1. Pushed(pushed, n, g)
    BY <1>2, <1>3
  <2> HIDE DEF Satisfies, g, n
  <2> QED BY <1>1, <2>1, PushedAll
<1>6. Graph[sys].res = res /\ Graph[sys].next = [i \in 1 .. n |-> g[i]]
  <2>1. Graph[sys] = [res |-> res, next |-> pushed[n]]
    BY <1>4, GraphIs
  <2> HIDE DEF res, n, g, Satisfies
  <2>2. Graph[sys].res = res /\ Graph[sys].next = pushed[n]
    BY <2>1
  <2> QED BY <1>5, <2>2
<1> HIDE DEF res, Satisfies
<1>7. Res = 1 .. n /\ Res = DOMAIN res
  BY <1>1, <1>6 DEF Res
<1>8. ASSUME NEW r \in Res PROVE NextOf(r) = {j \in Res : Follows(Graph[sys].res[r], Graph[sys].res[j])}
  BY <1>6, <1>7 DEF NextOf
<1> QED BY <1>6, <1>7, <1>8 DEF res

(* What the search goes over is what the ends of wires and segments say.    *)
LEMMA FollowsIs ==
  ASSUME NEW a, NEW x \in Resource(a), NEW y \in Resource(a), x.kind # "block", y.kind # "block"
  PROVE  Follows(x, y) <=> Joined(x, y)
<1>1. x.kind \in {"port", "wire", "segment"} /\ y.kind \in {"port", "wire", "segment"}
  BY DEF Resource
<1>2. CASE x.kind = "wire"
  BY <1>1, <1>2 DEF Follows, Joined
<1>3. CASE x.kind = "segment"
  BY <1>1, <1>3 DEF Follows, Joined
<1>4. CASE x.kind = "port"
  <2>1. CASE y.kind = "wire"
    BY <1>4, <2>1 DEF Follows, Joined
  <2>2. CASE y.kind = "segment"
    BY <1>4, <2>2 DEF Follows, Joined
  <2>3. CASE y.kind = "port"
    BY <1>4, <2>3 DEF Follows, Joined
  <2> QED BY <1>1, <2>1, <2>2, <2>3
<1> QED BY <1>1, <1>2, <1>3, <1>4

(* Nothing is joined to a block.                                            *)
LEMMA JoinedNoBlock ==
  ASSUME NEW a, NEW x \in Resource(a), NEW y \in Resource(a), Joined(x, y)
  PROVE  x.kind # "block" /\ y.kind # "block"
<1>1. x.kind \in {"block", "port", "wire", "segment"} /\ y.kind \in {"block", "port", "wire", "segment"}
  BY DEF Resource
<1>2. CASE x.kind = "block"
  BY <1>1, <1>2 DEF Joined
<1>3. CASE y.kind = "block"
  BY <1>1, <1>3 DEF Joined
<1> QED BY <1>2, <1>3

(* What each resource is entered from.                                      *)
LEMMA EnteredIs ==
  ASSUME sys \in DOMAIN Systems
  PROVE  \A r \in Res : Entered[sys][r] = {q \in Res : Joined(Graph[sys].res[q], Graph[sys].res[r])}
<1> DEFINE n == Len(Graph)
           Inner(i) == Mapped(LAMBDA y : {q \in DOMAIN Graph[i].res : Joined(Graph[i].res[q], y)}, Graph[i].res)
           g == [i \in 1 .. n |-> Inner(i)]
           Satisfies(f) == f = [i \in 0 .. n |-> IF i = 0 THEN <<>> ELSE Append(f[i - 1], Inner(i))]
           pushed == CHOOSE f : Satisfies(f)
<1>1. n \in Nat /\ sys \in 1 .. n
  <2>1. Graph \in Seq({ResourceGraph(Systems[i].arch) : i \in 1 .. Len(Systems)}) /\ n = Len(Systems)
    <3> DEFINE m == Len(Systems)
               h == [i \in 1 .. m |-> ResourceGraph(Systems[i].arch)]
               S == {ResourceGraph(Systems[i].arch) : i \in 1 .. m}
    <3>1. m \in Nat /\ \A i \in 1 .. m : h[i] \in S
      BY SystemIs
    <3>2. h \in Seq(S)
      <4> HIDE DEF m, S
      <4> QED BY <3>1, IsASeq
    <3>3. Len(h) = m
      <4> HIDE DEF S
      <4> QED BY <3>1, <3>2, LenProperties
    <3>4. Graph = h
      BY GraphAll
    <3> HIDE DEF h, m
    <3> QED BY <3>2, <3>3, <3>4 DEF m
  <2> QED BY <2>1, SystemIs
<1>2. ASSUME NEW f PROVE Pushed(f, n, g) <=> Satisfies(f)
  <2>1. \A i \in 0 .. n : i # 0 => g[i] = Inner(i)
    <3> HIDE DEF Inner
    <3> QED BY <1>1
  <2>2. [i \in 0 .. n |-> IF i = 0 THEN <<>> ELSE Append(f[i - 1], g[i])]
          = [i \in 0 .. n |-> IF i = 0 THEN <<>> ELSE Append(f[i - 1], Inner(i))]
    <3> HIDE DEF g, n, Inner
    <3> QED BY <2>1, Zenon
  <2> HIDE DEF g, n, Inner
  <2> QED BY <2>2 DEF Pushed
<1>3. Satisfies(pushed)
  <2>1. \E f : Satisfies(f)
    <3> HIDE DEF Satisfies, g, n
    <3> QED BY <1>1, <1>2, PushedOnce
  <2> HIDE DEF Satisfies
  <2> QED BY <2>1
<1>4. Entered = pushed[n]
  BY DEF Entered, Mapped
<1> HIDE DEF pushed
<1>5. pushed[n] = [i \in 1 .. n |-> g[i]]
  <2>1. Pushed(pushed, n, g)
    BY <1>2, <1>3
  <2> HIDE DEF Satisfies, g, n
  <2> QED BY <1>1, <2>1, PushedAll
<1>6. Entered[sys] = Inner(sys)
  <2> HIDE DEF Satisfies, Inner, n
  <2> QED BY <1>1, <1>4, <1>5
<1> HIDE DEF Satisfies, g, n
<1> DEFINE res == Graph[sys].res
           m == Len(res)
           E(y) == {q \in DOMAIN res : Joined(res[q], y)}
           e == [i \in 1 .. m |-> E(res[i])]
           Holds2(f) == f = [i \in 0 .. m |-> IF i = 0 THEN <<>> ELSE Append(f[i - 1], E(res[i]))]
           inner == CHOOSE f : Holds2(f)
<1>7. m \in Nat /\ DOMAIN res = 1 .. m /\ Res = 1 .. m
  <2>1. res \in Seq(Resource(Arch))
    BY SystemIs, ResourcesIs, NextIs
  <2> QED BY <2>1, LenProperties DEF Res
<1>8. Inner(sys) = inner[m]
  BY DEF Mapped
<1> HIDE DEF inner, Inner
<1>9. ASSUME NEW f PROVE Pushed(f, m, e) <=> Holds2(f)
  <2>1. \A i \in 0 .. m : i # 0 => e[i] = E(res[i])
    <3> HIDE DEF E, res
    <3> QED BY <1>7
  <2>2. [i \in 0 .. m |-> IF i = 0 THEN <<>> ELSE Append(f[i - 1], e[i])]
          = [i \in 0 .. m |-> IF i = 0 THEN <<>> ELSE Append(f[i - 1], E(res[i]))]
    <3> HIDE DEF e, m, E, res
    <3> QED BY <2>1, Zenon
  <2> HIDE DEF e, m, E, res
  <2> QED BY <2>2 DEF Pushed
<1>10. Holds2(inner)
  <2>1. \E f : Holds2(f)
    <3> HIDE DEF Holds2, e, m
    <3> QED BY <1>7, <1>9, PushedOnce
  <2> HIDE DEF Holds2
  <2> QED BY <2>1 DEF inner
<1>11. inner[m] = [i \in 1 .. m |-> e[i]]
  <2>1. Pushed(inner, m, e)
    BY <1>9, <1>10
  <2> HIDE DEF Holds2, e, m
  <2> QED BY <1>7, <2>1, PushedAll
<1>12. ASSUME NEW r \in Res PROVE Entered[sys][r] = E(res[r])
  <2> HIDE DEF Holds2, m, E, res
  <2> QED BY <1>6, <1>7, <1>8, <1>11
<1> QED BY <1>12 DEF Res

(* Every port has a resource.                                               *)
LEMMA PortIs ==
  ASSUME sys \in DOMAIN Systems, NEW p \in PortsOf(Arch)
  PROVE  /\ PortIndex(Graph[sys], p) \in Res
         /\ Graph[sys].res[PortIndex(Graph[sys], p)] = [kind |-> "port", pos |-> p]
<1> DEFINE res == Graph[sys].res
           i == PortIndex(Graph[sys], p)
<1>1. \E j \in Res : res[j].kind = "port" /\ res[j].pos = p
  <2>1. PICK j \in DOMAIN Resources(Arch) : Resources(Arch)[j] = [kind |-> "port", pos |-> p]
    BY SystemIs, ResourcesIs
  <2> QED BY <2>1, NextIs
<1>2. i \in Res /\ res[i].kind = "port" /\ res[i].pos = p
  <2>1. i = CHOOSE j \in Res : res[j].kind = "port" /\ res[j].pos = p
    BY DEF PortIndex, Res
  <2> HIDE DEF i, res
  <2> QED BY <1>1, <2>1
<1>3. res[i] \in Resource(Arch)
  <2>1. res \in Seq(Resource(Arch)) /\ Res = DOMAIN res
    BY SystemIs, ResourcesIs, NextIs
  <2> HIDE DEF res, i
  <2> QED BY <1>2, <2>1, LenProperties, ElementOfSeq
<1>4. res[i] = [kind |-> "port", pos |-> p]
  <2> HIDE DEF res, i
  <2>1. res[i] \in {[kind |-> "port", pos |-> q] : q \in PortsOf(Arch)}
    BY <1>2, <1>3 DEF Resource
  <2>2. PICK q : res[i] = [kind |-> "port", pos |-> q]
    BY <2>1
  <2>3. res[i].pos = q
    BY <2>2
  <2> QED BY <1>2, <2>2, <2>3
<1> QED BY <1>2, <1>4

(* The ends of a net are ports that the blocks of its nodes have.           *)
LEMMA NetEnds ==
  ASSUME sys \in DOMAIN Systems, NEW n \in DOMAIN Nets
  PROVE  /\ Nets[n].from[1] \in Node
         /\ Nets[n].from[2] \in 0 .. (Arch.block[TypeOf(Nets[n].from[1])].out - 1)
         /\ Len(Nets[n].targets) \in Nat /\ DOMAIN Nets[n].targets = 1 .. Len(Nets[n].targets)
         /\ \A i \in DOMAIN Nets[n].targets :
              /\ Nets[n].targets[i][1] \in Node
              /\ Nets[n].targets[i][2] \in 0 .. (Arch.block[TypeOf(Nets[n].targets[i][1])].in - 1)
<1> DEFINE Outs == UNION {{m} \X (0 .. (Arch.block[TypeOf(m)].out - 1)) : m \in Node}
           Ins == UNION {{m} \X (0 .. (Arch.block[TypeOf(m)].in - 1)) : m \in Node}
<1>1. Nets \in Seq([from : Outs, targets : Seq(Ins)])
  BY NetAssumption, NetsIs DEF NetAssumption, Arch, Dfg, Node, TypeOf
<1>2. Nets[n] \in [from : Outs, targets : Seq(Ins)]
  <2> HIDE DEF Outs, Ins
  <2> QED BY <1>1, LenProperties, ElementOfSeq
<1>3. Nets[n].from \in Outs /\ Nets[n].targets \in Seq(Ins)
  <2> HIDE DEF Outs, Ins
  <2> QED BY <1>2
<1>4. /\ Len(Nets[n].targets) \in Nat /\ DOMAIN Nets[n].targets = 1 .. Len(Nets[n].targets)
      /\ \A i \in DOMAIN Nets[n].targets : Nets[n].targets[i] \in Ins
  <2> HIDE DEF Outs, Ins
  <2> QED BY <1>3, LenProperties, ElementOfSeq
<1> QED BY <1>3, <1>4

(* Nodes are where blocks of their type are.                                *)
AtOK == \A n \in Node : at[n] \in Position(TypeOf(n))

(* Nodes are where blocks of their type are, so the ends of a net are ports *)
(* of the graph, a source to go out of and a target to go into.             *)
LEMMA EndsIs ==
  ASSUME sys \in DOMAIN Systems, AtOK, NEW n \in DOMAIN Nets, NEW i \in DOMAIN Nets[n].targets
  PROVE  /\ Source(n) \in Res \ Blocks /\ Target(n, i) \in Res \ Blocks
         /\ Source(n) # Target(n, i)
<1>1. ASSUME NEW end, end[1] \in Node, end[2] \in 0 .. (Arch.block[TypeOf(end[1])].out - 1)
      PROVE  PortPos(TypeOf(end[1]), at[end[1]], "out", "normal", end[2]) \in PortsOf(Arch)
  <2> DEFINE t == TypeOf(end[1])
             b == [type |-> t, cord |-> at[end[1]]]
  <2>1. t \in DOMAIN Arch.block /\ at[end[1]] \in Arch.block[t].position
    BY <1>1, ArchFacts DEF AtOK, Position
  <2>2. b \in BlocksOf(Arch)
    BY <2>1 DEF BlocksOf
  <2>3. b.type = t /\ b.cord = at[end[1]]
    OBVIOUS
  <2>4. PortPos(b.type, b.cord, "out", "normal", end[2]) \in
          {PortPos(b.type, b.cord, "out", "normal", k) : k \in 0 .. (Arch.block[b.type].out - 1)}
    BY <1>1, <2>3
  <2>5. PortPos(b.type, b.cord, "out", "normal", end[2]) \in PortsOf(Arch)
    <3> HIDE DEF b, t
    <3> QED BY <2>2, <2>4 DEF PortsOf
  <2> QED BY <2>3, <2>5
<1>2. ASSUME NEW end, end[1] \in Node, end[2] \in 0 .. (Arch.block[TypeOf(end[1])].in - 1)
      PROVE  PortPos(TypeOf(end[1]), at[end[1]], "in", "normal", end[2]) \in PortsOf(Arch)
  <2> DEFINE t == TypeOf(end[1])
             b == [type |-> t, cord |-> at[end[1]]]
  <2>1. t \in DOMAIN Arch.block /\ at[end[1]] \in Arch.block[t].position
    BY <1>2, ArchFacts DEF AtOK, Position
  <2>2. b \in BlocksOf(Arch)
    BY <2>1 DEF BlocksOf
  <2>3. b.type = t /\ b.cord = at[end[1]]
    OBVIOUS
  <2>4. PortPos(b.type, b.cord, "in", "normal", end[2]) \in
          {PortPos(b.type, b.cord, "in", "normal", k) : k \in 0 .. (Arch.block[b.type].in - 1)}
    BY <1>2, <2>3
  <2>5. PortPos(b.type, b.cord, "in", "normal", end[2]) \in PortsOf(Arch)
    <3> HIDE DEF b, t
    <3> QED BY <2>2, <2>4 DEF PortsOf
  <2> QED BY <2>3, <2>5
<1> DEFINE from == Nets[n].from
           to == Nets[n].targets[i]
           p == PortPos(TypeOf(from[1]), at[from[1]], "out", "normal", from[2])
           q == PortPos(TypeOf(to[1]), at[to[1]], "in", "normal", to[2])
<1>3. p \in PortsOf(Arch) /\ q \in PortsOf(Arch)
  <2> HIDE DEF from, to
  <2>1. /\ from[1] \in Node /\ from[2] \in 0 .. (Arch.block[TypeOf(from[1])].out - 1)
        /\ to[1] \in Node /\ to[2] \in 0 .. (Arch.block[TypeOf(to[1])].in - 1)
    BY NetEnds DEF from, to
  <2> QED BY <1>1, <1>2, <2>1
<1>4. Source(n) = PortIndex(Graph[sys], p) /\ Target(n, i) = PortIndex(Graph[sys], q)
  BY DEF Source, Target, NormalPort
<1>5. p.direction = "out" /\ q.direction = "in"
  BY DEF PortPos
<1> HIDE DEF p, q
<1>6. /\ Source(n) \in Res /\ Graph[sys].res[Source(n)] = [kind |-> "port", pos |-> p]
      /\ Target(n, i) \in Res /\ Graph[sys].res[Target(n, i)] = [kind |-> "port", pos |-> q]
  BY <1>3, <1>4, PortIs
<1>7. [kind |-> "port", pos |-> p] # [kind |-> "port", pos |-> q]
  <2>1. p # q
    BY <1>5
  <2>2. [kind |-> "port", pos |-> p].pos = p /\ [kind |-> "port", pos |-> q].pos = q
    OBVIOUS
  <2> QED BY <2>1, <2>2
<1> QED BY <1>6, <1>7 DEF Blocks

-----------------------------------------------------------------------------
(* The search from s: what has been reached was reached over what has been  *)
(* visited, and what follows the visited is no further than they say.       *)

Grown(S, s) ==
  /\ s \in DOMAIN S.dist /\ DOMAIN S.dist \subseteq Res \ Blocks
  /\ S.dist \in [DOMAIN S.dist -> Nat] /\ S.dist[s] = 0
  /\ DOMAIN S.path = DOMAIN S.dist \ {s}
  /\ \A r \in DOMAIN S.path :
       /\ S.path[r] \in DOMAIN S.dist /\ S.path[r] \in S.visit /\ r \in NextOf(S.path[r])
       /\ S.dist[r] = S.dist[S.path[r]] + weight[r]

Closed(S) ==
  /\ Blocks \subseteq S.visit /\ S.visit \ Blocks \subseteq DOMAIN S.dist
  /\ \A u \in S.visit \ Blocks :
       /\ \A r \in NextOf(u) \ Blocks :
            r \in DOMAIN S.dist /\ S.dist[r] <= S.dist[u] + weight[r]
       /\ \A q \in DOMAIN S.dist \ S.visit : S.dist[u] <= S.dist[q]

Weighed == weight \in [Res -> Nat \ {0}]

(* The search starts with the source alone.                                 *)
LEMMA StartOK ==
  ASSUME NEW s \in Res \ Blocks
  PROVE  Grown(NewSearch(s), s) /\ Closed(NewSearch(s))
<1> DEFINE S == NewSearch(s)
<1>1. S.visit = Blocks /\ S.dist = [r \in {s} |-> 0] /\ S.path = <<>>
  BY DEF NewSearch
<1>2. DOMAIN S.path = {}
  BY <1>1
<1>3. DOMAIN S.dist = {s} /\ S.dist[s] = 0
  BY <1>1
<1> HIDE DEF S
<1>4. S.dist \in [DOMAIN S.dist -> Nat]
  BY <1>1, <1>3
<1>5. Grown(S, s)
  BY <1>2, <1>3, <1>4 DEF Grown
<1>6. Closed(S)
  BY <1>1 DEF Closed
<1> QED BY <1>5, <1>6 DEF S

(* Visiting what is nearest in the queue keeps what the search knows.       *)
LEMMA RelaxOK ==
  ASSUME sys \in DOMAIN Systems, Weighed, NEW s, Grown(search, s), Closed(search), NEW u \in Top
  PROVE  Grown(Relax(u), s) /\ Closed(Relax(u)) /\ Relax(u).visit = search.visit \cup {u}
<1> DEFINE d == search.dist
           better == {r \in NextOf(u) \ (search.visit \cup {u}) :
                        r \notin DOMAIN d \/ d[u] + weight[r] < d[r]}
           S == Relax(u)
           e == S.dist
<1>1. /\ S.visit = search.visit \cup {u}
      /\ e = [r \in DOMAIN d \cup better |-> IF r \in better THEN d[u] + weight[r] ELSE d[r]]
      /\ S.path = [r \in DOMAIN search.path \cup better |-> IF r \in better THEN u ELSE search.path[r]]
  BY DEF Relax
<1>2. /\ u \in DOMAIN d /\ u \notin search.visit /\ u \in Res \ Blocks
      /\ \A q \in DOMAIN d \ search.visit : d[u] <= d[q]
  BY DEF Top, Queue, Grown
<1>3. /\ \A r \in DOMAIN d : d[r] \in Nat
      /\ \A r \in Res : weight[r] \in Nat /\ weight[r] > 0
  <2>1. \A r \in Res : weight[r] \in Nat \ {0}
    BY DEF Weighed
  <2> QED BY <2>1 DEF Grown
<1>4. NextOf(u) \subseteq Res
  BY <1>2, NextIs
<1>5. /\ better \subseteq Res \ Blocks /\ u \notin better /\ better \cap search.visit = {}
      /\ better \subseteq NextOf(u)
  BY <1>4 DEF Closed
<1>6. s \notin better
  <2> SUFFICES ASSUME s \in better PROVE FALSE
    OBVIOUS
  <2>1. s \in DOMAIN d /\ d[s] = 0 /\ s \in Res
    BY DEF Grown
  <2> QED BY <1>2, <1>3, <2>1
<1>7. /\ DOMAIN e = DOMAIN d \cup better
      /\ \A r \in DOMAIN e : e[r] = IF r \in better THEN d[u] + weight[r] ELSE d[r]
      /\ DOMAIN S.path = DOMAIN search.path \cup better
      /\ \A r \in DOMAIN S.path : S.path[r] = IF r \in better THEN u ELSE search.path[r]
  <2> HIDE DEF better, S, d
  <2> QED BY <1>1
<1>8. \A r \in better : r \notin DOMAIN d \/ d[u] + weight[r] < d[r]
  OBVIOUS
<1>9. \A r \in NextOf(u) : r \in search.visit \/ r = u \/ r \in better \/ (r \in DOMAIN d /\ ~ (d[u] + weight[r] < d[r]))
  OBVIOUS
<1> HIDE DEF better, S
<1>10. ASSUME NEW r \in DOMAIN e PROVE e[r] \in Nat /\ (r \in DOMAIN d => e[r] <= d[r])
  <2>1. CASE r \in better
    BY <1>2, <1>3, <1>5, <1>7, <1>8, <2>1
  <2>2. CASE r \notin better
    BY <1>3, <1>7, <2>2
  <2> QED BY <2>1, <2>2
<1>11. \A r \in DOMAIN d : r \in search.visit \/ r = u => e[r] = d[r]
  BY <1>5, <1>7
<1>12. Grown(S, s)
  <2>1. s \in DOMAIN e /\ DOMAIN e \subseteq Res \ Blocks /\ e[s] = 0
    BY <1>5, <1>6, <1>7 DEF Grown
  <2>2. e \in [DOMAIN e -> Nat]
    <3>1. e = [r \in DOMAIN e |-> e[r]]
      <4> HIDE DEF d
      <4> QED BY <1>1, <1>7
    <3> HIDE DEF e
    <3> QED BY <1>10, <3>1
  <2>3. DOMAIN S.path = DOMAIN e \ {s}
    BY <1>6, <1>7 DEF Grown
  <2>4. ASSUME NEW r \in DOMAIN S.path
        PROVE  /\ S.path[r] \in DOMAIN e /\ S.path[r] \in S.visit /\ r \in NextOf(S.path[r])
               /\ e[r] = e[S.path[r]] + weight[r]
    <3>1. CASE r \in better
      BY <1>1, <1>2, <1>5, <1>7, <1>11, <3>1
    <3>2. CASE r \notin better
      <4>1. r \in DOMAIN search.path /\ S.path[r] = search.path[r]
        BY <1>7, <3>2
      <4>2. /\ search.path[r] \in DOMAIN d /\ search.path[r] \in search.visit /\ r \in NextOf(search.path[r])
            /\ d[r] = d[search.path[r]] + weight[r] /\ r \in DOMAIN d
        BY <4>1 DEF Grown
      <4> QED BY <1>1, <1>7, <1>11, <3>2, <4>1, <4>2
    <3> QED BY <3>1, <3>2
  <2> QED BY <2>1, <2>2, <2>3, <2>4 DEF Grown
<1>13. Closed(S)
  <2>1. Blocks \subseteq S.visit /\ S.visit \ Blocks \subseteq DOMAIN e
    BY <1>1, <1>2, <1>7 DEF Closed
  <2>2. ASSUME NEW v \in S.visit \ Blocks, NEW r \in NextOf(v) \ Blocks
        PROVE  r \in DOMAIN e /\ e[r] <= e[v] + weight[r]
    <3>1. v \in DOMAIN d /\ e[v] = d[v] /\ v \in Res /\ r \in Res /\ d[v] \in Nat
      <4>1. v \in DOMAIN d /\ e[v] = d[v] /\ v \in Res
        BY <1>1, <1>2, <1>11 DEF Closed, Grown
      <4>2. r \in Res
        BY <4>1, NextIs
      <4> QED BY <1>3, <4>1, <4>2
    <3>2. CASE v # u
      <4>1. r \in DOMAIN d /\ d[r] <= d[v] + weight[r]
        BY <1>1, <3>2 DEF Closed
      <4>2. r \in DOMAIN e /\ e[r] \in Nat /\ e[r] <= d[r] /\ d[r] \in Nat
        BY <1>3, <1>7, <1>10, <4>1
      <4> QED BY <1>3, <3>1, <4>1, <4>2
    <3>3. CASE v = u
      <4>1. CASE r \in better
        BY <1>3, <1>7, <3>1, <3>3, <4>1
      <4>2. CASE r = u
        BY <1>3, <1>7, <3>1, <3>3, <4>2
      <4>3. CASE r \in search.visit
        <5>1. r \in DOMAIN d /\ d[r] <= d[u] /\ e[r] = d[r]
          BY <1>2, <1>11, <4>3 DEF Closed
        <5> QED BY <1>3, <1>7, <3>1, <3>3, <5>1
      <4>4. CASE r \in DOMAIN d /\ ~ (d[u] + weight[r] < d[r])
        <5>1. r \in DOMAIN e /\ e[r] \in Nat /\ e[r] <= d[r] /\ d[r] \in Nat
          BY <1>3, <1>7, <1>10, <4>4
        <5> QED BY <1>3, <3>1, <3>3, <4>4, <5>1
      <4> QED BY <1>9, <3>3, <4>1, <4>2, <4>3, <4>4
    <3> QED BY <3>2, <3>3
  <2>3. ASSUME NEW v \in S.visit \ Blocks, NEW q \in DOMAIN e \ S.visit
        PROVE  e[v] <= e[q]
    <3>1. v \in DOMAIN d /\ e[v] = d[v] /\ d[v] \in Nat /\ d[v] <= d[u] /\ d[u] \in Nat
      <4>1. v \in DOMAIN d /\ e[v] = d[v]
        BY <1>1, <1>2, <1>11 DEF Closed
      <4>2. CASE v = u
        BY <1>2, <1>3, <4>1, <4>2
      <4>3. CASE v # u
        <5>1. v \in search.visit \ Blocks /\ u \in DOMAIN d \ search.visit
          BY <1>1, <1>2, <4>3
        <5> QED BY <1>3, <4>1, <5>1 DEF Closed
      <4> QED BY <4>2, <4>3
    <3>2. CASE q \in better
      <4>1. q \in Res /\ e[q] = d[u] + weight[q]
        BY <1>5, <1>7, <3>2
      <4> QED BY <1>3, <3>1, <4>1
    <3>3. CASE q \notin better
      <4>1. q \in DOMAIN d /\ q \notin search.visit /\ e[q] = d[q]
        BY <1>1, <1>7, <3>3
      <4> QED BY <1>2, <1>3, <3>1, <4>1
    <3> QED BY <3>2, <3>3
  <2> QED BY <2>1, <2>2, <2>3 DEF Closed
<1> QED BY <1>1, <1>12, <1>13 DEF S

-----------------------------------------------------------------------------
(* The way from s to r that the search remembers, before[x] being what x    *)
(* was reached from.                                                        *)
Way(D, before, s, p, r) ==
  /\ p \in Seq(D) /\ Len(p) >= 1 /\ p[1] = s /\ p[Len(p)] = r
  /\ \A k \in 1 .. (Len(p) - 1) : p[k + 1] \in DOMAIN before /\ p[k] = before[p[k + 1]]

(* A way goes on to what was reached from its end.                          *)
LEMMA WayLonger ==
  ASSUME NEW D, NEW before, NEW s, NEW r \in D, r \in DOMAIN before,
         NEW p, Way(D, before, s, p, before[r])
  PROVE  Way(D, before, s, Append(p, r), r)
<1> DEFINE n == Len(p)
           a == Append(p, r)
<1>1. n \in Nat /\ n >= 1 /\ p \in Seq(D) /\ p[1] = s /\ p[n] = before[r]
  BY LenProperties DEF Way
<1>2. /\ a \in Seq(D) /\ Len(a) = n + 1 /\ a[n + 1] = r /\ \A k \in 1 .. n : a[k] = p[k]
  BY <1>1, AppendProperties
<1>3. \A k \in 1 .. (n - 1) : p[k + 1] \in DOMAIN before /\ p[k] = before[p[k + 1]]
  BY DEF Way
<1> HIDE DEF a, n
<1>4. ASSUME NEW k \in 1 .. (Len(a) - 1)
      PROVE  a[k + 1] \in DOMAIN before /\ a[k] = before[a[k + 1]]
  <2>1. k \in 1 .. n
    BY <1>1, <1>2
  <2>2. CASE k = n
    BY <1>1, <1>2, <2>1, <2>2
  <2>3. CASE k # n
    <3>1. k \in 1 .. (n - 1) /\ k + 1 \in 1 .. n
      BY <1>1, <2>1, <2>3
    <3> QED BY <1>2, <1>3, <2>1, <3>1
  <2> QED BY <2>2, <2>3
<1>5. Len(a) >= 1 /\ a[1] = s /\ a[Len(a)] = r
  BY <1>1, <1>2
<1> QED BY <1>2, <1>4, <1>5 DEF Way, a

OneMore(D, before, s, p, r) == \E q : Way(D, before, s, q, before[r]) /\ p = Append(q, r)

(* A way that does not end at its start is one step longer than another.    *)
LEMMA WayShorter ==
  ASSUME NEW D, NEW before, NEW s, NEW r, r # s, NEW p, Way(D, before, s, p, r)
  PROVE  r \in DOMAIN before /\ OneMore(D, before, s, p, r)
<1>1. p \in Seq(D) /\ p # <<>> /\ p[1] = s /\ p[Len(p)] = r
  BY EmptySeq DEF Way
<1>2. PICK q \in Seq(D), x \in D : p = Append(q, x)
  BY <1>1, SequenceEmptyOrAppend
<1> DEFINE n == Len(q)
<1>3. n \in Nat /\ Len(p) = n + 1 /\ p[n + 1] = x /\ \A k \in 1 .. n : p[k] = q[k]
  BY <1>2, LenProperties, AppendProperties
<1> HIDE DEF n
<1>4. x = r /\ n >= 1
  BY <1>1, <1>3
<1>5. \A k \in 1 .. n : p[k + 1] \in DOMAIN before /\ p[k] = before[p[k + 1]]
  BY <1>3 DEF Way
<1>6. r \in DOMAIN before /\ q[n] = before[r] /\ q[1] = s
  BY <1>1, <1>3, <1>4, <1>5
<1>7. ASSUME NEW k \in 1 .. (n - 1)
      PROVE  q[k + 1] \in DOMAIN before /\ q[k] = before[q[k + 1]]
  <2>1. k \in 1 .. n /\ k + 1 \in 1 .. n
    BY <1>3
  <2> QED BY <1>3, <1>5, <2>1
<1>8. Way(D, before, s, q, before[r])
  BY <1>2, <1>4, <1>6, <1>7 DEF Way, n
<1> QED BY <1>2, <1>4, <1>6, <1>8 DEF OneMore

(* The way to the start has no step.                                        *)
LEMMA WayOfStart ==
  ASSUME NEW D, NEW s \in D, NEW before, s \notin DOMAIN before
  PROVE  /\ Way(D, before, s, <<s>>, s)
         /\ \A p : Way(D, before, s, p, s) => p = <<s>>
<1>1. Way(D, before, s, <<s>>, s)
  BY DEF Way
<1>2. ASSUME NEW p, Way(D, before, s, p, s) PROVE p = <<s>>
  <2>1. p \in Seq(D) /\ Len(p) \in Nat /\ Len(p) >= 1 /\ p[1] = s /\ p[Len(p)] = s
    BY <1>2, LenProperties DEF Way
  <2>2. Len(p) = 1
    <3> SUFFICES ASSUME Len(p) # 1 PROVE FALSE
      OBVIOUS
    <3>1. Len(p) - 1 \in 1 .. (Len(p) - 1) /\ (Len(p) - 1) + 1 = Len(p)
      <4> DEFINE n == Len(p)
      <4>1. n \in Nat /\ n >= 1 /\ n # 1
        BY <2>1
      <4> HIDE DEF n
      <4>2. n - 1 \in 1 .. (n - 1) /\ (n - 1) + 1 = n
        BY <4>1
      <4> QED BY <4>2 DEF n
    <3>2. p[Len(p)] \in DOMAIN before
      BY <1>2, <3>1 DEF Way
    <3> QED BY <2>1, <3>2
  <2> QED BY <2>1, <2>2
<1> QED BY <1>1, <1>2

(* When each step of the way is one from what is nearer, there is one way   *)
(* to everything that has been reached.                                     *)
LEMMA OneWay ==
  ASSUME NEW D, NEW s \in D, NEW d \in [D -> Nat], NEW before, DOMAIN before = D \ {s},
         \A r \in DOMAIN before : before[r] \in D /\ d[before[r]] < d[r]
  PROVE  \A r \in D : \E p : Way(D, before, s, p, r) /\ \A q : Way(D, before, s, q, r) => q = p
<1> DEFINE One(r) == \E p : Way(D, before, s, p, r) /\ \A q : Way(D, before, s, q, r) => q = p
           T == {d[r] : r \in {x \in D : ~ One(x)}}
<1> SUFFICES ASSUME T # {} PROVE FALSE
  OBVIOUS
<1>1. T \subseteq Nat
  OBVIOUS
<1>2. PICK v \in T : \A w \in T : v <= w
  <2> HIDE DEF T
  <2> QED BY <1>1, LeastElement
<1>3. PICK r \in D : ~ One(r) /\ v = d[r]
  BY <1>2
<1>4. r # s
  <2>1. One(s)
    BY WayOfStart
  <2> HIDE DEF One
  <2> QED BY <1>3, <2>1
<1>5. r \in DOMAIN before /\ before[r] \in D /\ d[before[r]] < d[r] /\ d[r] \in Nat /\ d[before[r]] \in Nat
  BY <1>3, <1>4
<1>6. One(before[r])
  <2> SUFFICES ASSUME ~ One(before[r]) PROVE FALSE
    OBVIOUS
  <2>1. d[before[r]] \in T
    BY <1>5
  <2> HIDE DEF T, One
  <2> QED BY <1>2, <1>3, <1>5, <2>1
<1>7. PICK p : Way(D, before, s, p, before[r]) /\ \A q : Way(D, before, s, q, before[r]) => q = p
  BY <1>6
<1>8. Way(D, before, s, Append(p, r), r)
  BY <1>3, <1>5, <1>7, WayLonger
<1>9. ASSUME NEW q, Way(D, before, s, q, r) PROVE q = Append(p, r)
  <2>1. OneMore(D, before, s, q, r)
    BY <1>4, <1>9, WayShorter
  <2>2. PICK f : Way(D, before, s, f, before[r]) /\ q = Append(f, r)
    BY <2>1 DEF OneMore
  <2> QED BY <1>7, <2>2
<1> QED BY <1>3, <1>8, <1>9

Traced(b, R, before) ==
  b = [r \in R |-> IF r \in DOMAIN before THEN Append(b[before[r]], r) ELSE <<r>>]

(* The way back from each resource is defined.                              *)
LEMMA TracedOnce ==
  ASSUME NEW R, NEW D, D \subseteq R, NEW s \in D, NEW d \in [D -> Nat], NEW before,
         DOMAIN before = D \ {s},
         \A r \in DOMAIN before : before[r] \in D /\ d[before[r]] < d[r]
  PROVE  \E b : Traced(b, R, before)
<1> DEFINE W(r) == CHOOSE p : Way(D, before, s, p, r)
           b == [r \in R |-> IF r \in D THEN W(r) ELSE <<r>>]
<1>1. \A r \in D : \E p : Way(D, before, s, p, r) /\ \A q : Way(D, before, s, q, r) => q = p
  BY OneWay
<1>2. ASSUME NEW r \in D
      PROVE  Way(D, before, s, W(r), r) /\ \A q : Way(D, before, s, q, r) => q = W(r)
  <2>1. PICK p : Way(D, before, s, p, r) /\ \A q : Way(D, before, s, q, r) => q = p
    BY <1>1
  <2>2. Way(D, before, s, W(r), r)
    BY <2>1
  <2> HIDE DEF W
  <2> QED BY <2>1, <2>2
<1> HIDE DEF W
<1>3. \A r \in D : b[r] = W(r)
  OBVIOUS
<1>4. ASSUME NEW r \in R PROVE b[r] = IF r \in DOMAIN before THEN Append(b[before[r]], r) ELSE <<r>>
  <2>1. CASE r \in DOMAIN before
    <3>1. r \in D /\ before[r] \in D
      BY <2>1
    <3>2. Way(D, before, s, W(before[r]), before[r])
      BY <1>2, <3>1
    <3>3. Way(D, before, s, Append(W(before[r]), r), r)
      BY <2>1, <3>1, <3>2, WayLonger
    <3>4. Append(W(before[r]), r) = W(r)
      BY <1>2, <3>1, <3>3
    <3> HIDE DEF b
    <3> QED BY <1>3, <2>1, <3>1, <3>4
  <2>2. CASE r \notin DOMAIN before /\ r \in D
    <3>1. r = s /\ s \notin DOMAIN before
      BY <2>2
    <3>2. Way(D, before, s, <<s>>, s)
      BY <3>1, WayOfStart
    <3>3. W(s) = <<s>>
      BY <1>2, <3>2
    <3> HIDE DEF b
    <3> QED BY <1>3, <2>2, <3>1, <3>3
  <2>3. CASE r \notin D
    BY <2>3
  <2> QED BY <2>1, <2>2, <2>3
<1>5. b = [r \in R |-> IF r \in DOMAIN before THEN Append(b[before[r]], r) ELSE <<r>>]
  <2>1. b = [r \in R |-> b[r]]
    OBVIOUS
  <2> HIDE DEF b
  <2> QED BY <1>4, <2>1
<1> HIDE DEF b
<1> QED BY <1>5 DEF Traced

(* It is the way there.                                                     *)
LEMMA TracedIs ==
  ASSUME NEW R, NEW D, D \subseteq R, NEW s \in D, NEW d \in [D -> Nat], NEW before,
         DOMAIN before = D \ {s},
         \A r \in DOMAIN before : before[r] \in D /\ d[before[r]] < d[r],
         NEW b, Traced(b, R, before)
  PROVE  \A r \in D : Way(D, before, s, b[r], r)
<1> DEFINE Good(r) == Way(D, before, s, b[r], r)
           T == {d[r] : r \in {x \in D : ~ Good(x)}}
<1> SUFFICES ASSUME T # {} PROVE FALSE
  OBVIOUS
<1>1. T \subseteq Nat
  OBVIOUS
<1>2. PICK v \in T : \A w \in T : v <= w
  <2> HIDE DEF T
  <2> QED BY <1>1, LeastElement
<1>3. PICK r \in D : ~ Good(r) /\ v = d[r]
  BY <1>2
<1>4. \A x \in R : b[x] = IF x \in DOMAIN before THEN Append(b[before[x]], x) ELSE <<x>>
  BY Zenon DEF Traced
<1>5. r # s
  <2>1. b[s] = <<s>> /\ Way(D, before, s, <<s>>, s)
    BY <1>4, WayOfStart
  <2>2. Good(s)
    BY <2>1
  <2> HIDE DEF Good
  <2> QED BY <1>3, <2>2
<1>6. r \in DOMAIN before /\ before[r] \in D /\ d[before[r]] < d[r] /\ d[r] \in Nat /\ d[before[r]] \in Nat
  BY <1>3, <1>5
<1>7. Good(before[r])
  <2> SUFFICES ASSUME ~ Good(before[r]) PROVE FALSE
    OBVIOUS
  <2>1. d[before[r]] \in T
    BY <1>6
  <2> HIDE DEF T, Good
  <2> QED BY <1>2, <1>3, <1>6, <2>1
<1>8. b[r] = Append(b[before[r]], r)
  BY <1>4, <1>6
<1>9. Way(D, before, s, Append(b[before[r]], r), r)
  BY <1>6, <1>7, WayLonger
<1> QED BY <1>3, <1>8, <1>9

(* What it costs is the distance that was found.                            *)
Counted(upTo, p, w) == upTo = [k \in 1 .. Len(p) |-> IF k = 1 THEN 0 ELSE upTo[k - 1] + w[p[k]]]

Costs(p, w, c) == /\ \E f : Counted(f, p, w)
                  /\ \A f : Counted(f, p, w) => f[Len(p)] = c

(* The weight of a way is the distance of its end.                          *)
LEMMA CountedIs ==
  ASSUME NEW D, NEW s \in D, NEW d \in [D -> Nat], d[s] = 0, NEW before, NEW w,
         \A r \in DOMAIN before : r \in D /\ before[r] \in D /\ d[r] = d[before[r]] + w[r],
         NEW p, NEW t, Way(D, before, s, p, t)
  PROVE  Costs(p, w, d[t])
<1> DEFINE n == Len(p)
           g == [k \in 1 .. n |-> d[p[k]]]
<1>1. /\ n \in Nat /\ n >= 1 /\ p[1] = s /\ p[n] = t
      /\ \A k \in 1 .. n : p[k] \in D
  BY LenProperties, ElementOfSeq DEF Way
<1>2. \A k \in 1 .. (n - 1) : p[k + 1] \in DOMAIN before /\ p[k] = before[p[k + 1]]
  BY DEF Way
<1> HIDE DEF n
<1>3. ASSUME NEW k \in 1 .. n, k # 1 PROVE k - 1 \in 1 .. n /\ d[p[k]] = d[p[k - 1]] + w[p[k]]
  <2>1. k - 1 \in 1 .. (n - 1) /\ (k - 1) + 1 = k /\ k - 1 \in 1 .. n
    BY <1>1, <1>3
  <2>2. p[k] \in DOMAIN before /\ p[k - 1] = before[p[k]]
    BY <1>2, <2>1
  <2> QED BY <2>1, <2>2
<1>4. Counted(g, p, w)
  <2>1. ASSUME NEW k \in 1 .. n PROVE g[k] = IF k = 1 THEN 0 ELSE g[k - 1] + w[p[k]]
    <3>1. CASE k = 1
      BY <1>1, <3>1
    <3>2. CASE k # 1
      <4>1. g[k] = d[p[k]] /\ g[k - 1] = d[p[k - 1]]
        BY <1>3, <3>2
      <4> HIDE DEF g
      <4> QED BY <1>3, <3>2, <4>1
    <3> QED BY <3>1, <3>2
  <2>2. g = [k \in 1 .. n |-> g[k]]
    OBVIOUS
  <2> HIDE DEF g
  <2> QED BY <2>1, <2>2 DEF Counted, n
<1>5. ASSUME NEW f, Counted(f, p, w) PROVE f[n] = d[t]
  <2> DEFINE V == [i \in 0 .. (n - 1) |-> {d[p[i + 1]]}]
             h == [i \in 0 .. (n - 1) |-> f[i + 1]]
             v == h[0]
             N == n - 1
  <2>1. \A k \in 1 .. n : f[k] = IF k = 1 THEN 0 ELSE f[k - 1] + w[p[k]]
    BY <1>5, Zenon DEF Counted, n
  <2>2. N \in Nat /\ v \in V[0]
    BY <1>1, <2>1
  <2>3. ASSUME NEW k \in 1 .. N, h[k - 1] \in V[k - 1] PROVE h[k] \in V[k]
    <3>1. k \in 0 .. N /\ k - 1 \in 0 .. N /\ k + 1 \in 1 .. n /\ k + 1 # 1 /\ (k + 1) - 1 = k /\ (k - 1) + 1 = k /\ k \in 1 .. n
      BY <1>1
    <3>2. f[k] = d[p[k]]
      BY <2>3, <3>1
    <3>3. f[k + 1] = f[k] + w[p[k + 1]]
      BY <2>1, <3>1
    <3>4. d[p[k + 1]] = d[p[k]] + w[p[k + 1]]
      BY <1>3, <3>1
    <3> QED BY <3>1, <3>2, <3>3, <3>4
  <2>4. h[N] \in V[N]
    <3>1. h[0] = v /\ \A k \in 1 .. N : h[k - 1] \in V[k - 1] => h[k] \in V[k]
      BY <2>3
    <3> HIDE DEF h, V, v, N
    <3> QED BY <2>2, <3>1, Followed
  <2>5. N \in 0 .. (n - 1) /\ N + 1 = n
    BY <1>1
  <2> QED BY <1>1, <2>4, <2>5
<1> QED BY <1>4, <1>5 DEF Costs, n

(* What the search goes over and what is joined are the same.               *)
LEMMA NextEntered ==
  ASSUME sys \in DOMAIN Systems
  PROVE  /\ \A q, r \in Res \ Blocks : r \in NextOf(q) <=> q \in Entered[sys][r]
         /\ \A r \in Res : \A q \in Entered[sys][r] : q \in Res \ Blocks /\ r \in Res \ Blocks
<1> DEFINE res == Graph[sys].res
<1>1. \A r \in Res : res[r] \in Resource(Arch)
  <2>1. res \in Seq(Resource(Arch)) /\ Res = DOMAIN res
    BY SystemIs, ResourcesIs, NextIs
  <2> HIDE DEF res
  <2> QED BY <2>1, LenProperties, ElementOfSeq
<1>2. \A r \in Res : r \notin Blocks <=> res[r].kind # "block"
  BY DEF Blocks
<1>3. \A r \in Res : Entered[sys][r] = {q \in Res : Joined(res[q], res[r])}
  BY EnteredIs
<1>4. \A q \in Res : NextOf(q) = {r \in Res : Follows(res[q], res[r])}
  BY NextIs
<1> HIDE DEF res
<1>5. ASSUME NEW q \in Res \ Blocks, NEW r \in Res \ Blocks
      PROVE  r \in NextOf(q) <=> q \in Entered[sys][r]
  <2>1. Follows(res[q], res[r]) <=> Joined(res[q], res[r])
    BY <1>1, <1>2, FollowsIs
  <2> QED BY <1>3, <1>4, <2>1
<1>6. ASSUME NEW r \in Res, NEW q \in Entered[sys][r]
      PROVE  q \in Res \ Blocks /\ r \in Res \ Blocks
  <2>1. q \in Res /\ Joined(res[q], res[r])
    BY <1>3
  <2>2. res[q].kind # "block" /\ res[r].kind # "block"
    BY <1>1, <2>1, JoinedNoBlock
  <2> QED BY <1>2, <2>1, <2>2
<1> QED BY <1>5, <1>6

(* The path of a resource that was reached.                                 *)
LEMMA PathFound ==
  ASSUME sys \in DOMAIN Systems, Weighed, NEW s, Grown(search, s), NEW t \in DOMAIN search.dist
  PROVE  /\ PathTo(t)[1] = s /\ PathTo(t)[Len(PathTo(t))] = t
         /\ \A k \in 1 .. (Len(PathTo(t)) - 1) : PathTo(t)[k] \in Entered[sys][PathTo(t)[k + 1]]
         /\ PathWeight(PathTo(t)) = search.dist[t]
<1> DEFINE D == DOMAIN search.dist
           d == search.dist
           before == search.path
           p == PathTo(t)
           w == weight
           Eq(b) == b = [r \in Res |-> IF r \in DOMAIN search.path THEN Append(b[search.path[r]], r) ELSE <<r>>]
           back == CHOOSE b : Eq(b)
           Up(u) == u = [k \in 1 .. Len(p) |-> IF k = 1 THEN 0 ELSE u[k - 1] + weight[p[k]]]
           upTo == CHOOSE u : Up(u)
<1>1. /\ s \in D /\ D \subseteq Res \ Blocks /\ d \in [D -> Nat] /\ d[s] = 0 /\ DOMAIN before = D \ {s}
      /\ \A r \in DOMAIN before :
           r \in D /\ before[r] \in D /\ r \in NextOf(before[r]) /\ d[r] = d[before[r]] + w[r]
  BY DEF Grown
<1>2. p = back[t]
  BY DEF PathTo
<1>3. PathWeight(p) = upTo[Len(p)]
  BY DEF PathWeight
<1>4. \A b : Eq(b) <=> Traced(b, Res, before)
  BY DEF Traced
<1>5. \A u : Up(u) <=> Counted(u, p, w)
  BY DEF Counted
<1>6. /\ \A r \in Res : w[r] \in Nat /\ w[r] > 0
      /\ t \in D
  <2>1. \A r \in Res : w[r] \in Nat \ {0}
    BY DEF Weighed
  <2> QED BY <2>1
<1> HIDE DEF D, d, before, p, w
<1>7. \A r \in DOMAIN before : before[r] \in D /\ d[before[r]] < d[r]
  <2> SUFFICES ASSUME NEW r \in DOMAIN before PROVE before[r] \in D /\ d[before[r]] < d[r]
    OBVIOUS
  <2>1. r \in D /\ r \in Res /\ before[r] \in D /\ d[r] = d[before[r]] + w[r]
    BY <1>1
  <2>2. d[r] \in Nat /\ d[before[r]] \in Nat /\ w[r] \in Nat /\ w[r] > 0
    BY <1>1, <1>6, <2>1
  <2> QED BY <2>1, <2>2
<1>8. D \subseteq Res
  BY <1>1
<1>9. Traced(back, Res, before)
  <2>1. \E b : Eq(b)
    <3> HIDE DEF Eq
    <3> QED BY <1>1, <1>4, <1>7, <1>8, TracedOnce
  <2>2. Eq(back)
    <3> HIDE DEF Eq
    <3> QED BY <2>1
  <2> HIDE DEF Eq, back
  <2> QED BY <1>4, <2>2
<1> HIDE DEF Eq, back
<1>10. Way(D, before, s, p, t)
  BY <1>1, <1>2, <1>6, <1>7, <1>8, <1>9, TracedIs
<1>11. PathWeight(p) = d[t]
  <2>1. /\ \E u : Counted(u, p, w)
        /\ \A u : Counted(u, p, w) => u[Len(p)] = d[t]
    <3>1. \A r \in DOMAIN before : r \in D /\ before[r] \in D /\ d[r] = d[before[r]] + w[r]
      BY <1>1
    <3>2. s \in D /\ d \in [D -> Nat] /\ d[s] = 0
      BY <1>1
    <3>3. Costs(p, w, d[t])
      BY <1>10, <3>1, <3>2, CountedIs
    <3> QED BY <3>3 DEF Costs
  <2>2. Up(upTo)
    <3>1. \E u : Up(u)
      <4> HIDE DEF Up
      <4> QED BY <1>5, <2>1
    <3> HIDE DEF Up
    <3> QED BY <3>1
  <2> HIDE DEF Up, upTo
  <2> QED BY <1>3, <1>5, <2>1, <2>2
<1>12. ASSUME NEW k \in 1 .. (Len(p) - 1) PROVE p[k] \in Entered[sys][p[k + 1]]
  <2>1. p[k + 1] \in DOMAIN before /\ p[k] = before[p[k + 1]]
    BY <1>10 DEF Way
  <2>2. p[k + 1] \in Res \ Blocks /\ p[k] \in Res \ Blocks /\ p[k + 1] \in NextOf(p[k])
    BY <1>1, <2>1
  <2> QED BY <2>2, NextEntered
<1>13. p[1] = s /\ p[Len(p)] = t
  BY <1>10 DEF Way
<1> QED BY <1>11, <1>12, <1>13 DEF p, d

-----------------------------------------------------------------------------
(* What can be reached at a weight is no further than what has been         *)
(* visited.                                                                 *)
UnderWeight(D, d, c) == {x \in D : d[x] <= c}

Rings(R, D, d, v) ==
  {q \in Seq(SUBSET R) : Len(q) = v + 1 /\ \A j \in 1 .. (v + 1) : q[j] \subseteq UnderWeight(D, d, j - 1)}

Wider(R, W, E, k, q) ==
  Append(q, Last(q) \cup {r \in R : W[r] <= k /\ E[r] \cap q[k - W[r] + 1] # {}})

(* One more weight: what it adds was reached at no more than that.          *)
LEMMA WiderIs ==
  ASSUME NEW R, NEW W \in [R -> Nat \ {0}], NEW D, D \subseteq R, NEW d \in [D -> Nat], NEW E,
         NEW w \in Nat,
         \A r \in R : \A x \in E[r] : x \in D /\ d[x] <= w => r \in D /\ d[r] <= d[x] + W[r],
         NEW k \in 1 .. w, NEW q \in Rings(R, D, d, k - 1)
  PROVE  Wider(R, W, E, k, q) \in Rings(R, D, d, k)
<1> DEFINE more == {r \in R : W[r] <= k /\ E[r] \cap q[k - W[r] + 1] # {}}
           set == Last(q) \cup more
           a == Append(q, set)
<1>1. /\ k \in Nat /\ k >= 1 /\ k <= w
      /\ q \in Seq(SUBSET R) /\ Len(q) = k
      /\ \A j \in 1 .. k : q[j] \subseteq UnderWeight(D, d, j - 1)
  <2>1. k \in Nat /\ k >= 1 /\ k <= w /\ (k - 1) + 1 = k
    OBVIOUS
  <2> QED BY <2>1 DEF Rings
<1>2. Last(q) \subseteq R /\ Last(q) \subseteq UnderWeight(D, d, k)
  <2>1. Last(q) = q[k] /\ k \in 1 .. k
    BY <1>1 DEF Last
  <2>2. q[k] \subseteq UnderWeight(D, d, k - 1)
    BY <1>1, <2>1
  <2>3. UnderWeight(D, d, k - 1) \subseteq UnderWeight(D, d, k)
    BY <1>1 DEF UnderWeight
  <2>4. UnderWeight(D, d, k) \subseteq R
    BY DEF UnderWeight
  <2> QED BY <2>1, <2>2, <2>3, <2>4
<1>3. ASSUME NEW r \in more PROVE r \in R /\ r \in UnderWeight(D, d, k)
  <2>1. r \in R /\ W[r] \in Nat /\ W[r] >= 1 /\ W[r] <= k
    <3>1. r \in R /\ W[r] <= k /\ W[r] \in Nat \ {0}
      OBVIOUS
    <3> QED BY <3>1
  <2>2. PICK x \in E[r] : x \in q[k - W[r] + 1]
    OBVIOUS
  <2> DEFINE c == W[r]
             j == k - c + 1
  <2>3. c \in Nat /\ c >= 1 /\ c <= k /\ x \in q[j]
    BY <2>1, <2>2
  <2> HIDE DEF c
  <2>4. j \in 1 .. k /\ j - 1 = k - c
    BY <1>1, <2>3
  <2>5. x \in D /\ d[x] <= k - c
    <3> HIDE DEF j
    <3>1. x \in UnderWeight(D, d, j - 1)
      BY <1>1, <2>3, <2>4
    <3> QED BY <2>4, <3>1 DEF UnderWeight
  <2>6. d[x] \in Nat /\ d[x] <= w
    BY <1>1, <2>3, <2>5
  <2>7. r \in D /\ d[r] <= d[x] + c
    BY <2>1, <2>5, <2>6 DEF c
  <2>8. d[r] \in Nat /\ d[r] <= k
    BY <1>1, <2>3, <2>5, <2>6, <2>7
  <2> QED BY <2>1, <2>7, <2>8 DEF UnderWeight
<1>4. set \in SUBSET R /\ set \subseteq UnderWeight(D, d, k)
  <2> HIDE DEF more
  <2> QED BY <1>2, <1>3
<1> HIDE DEF set
<1>5. /\ a \in Seq(SUBSET R) /\ Len(a) = k + 1 /\ a[k + 1] = set /\ \A j \in 1 .. k : a[j] = q[j]
  BY <1>1, <1>4, AppendProperties
<1> HIDE DEF a
<1>6. ASSUME NEW j \in 1 .. (k + 1) PROVE a[j] \subseteq UnderWeight(D, d, j - 1)
  <2>1. CASE j = k + 1
    <3>1. j - 1 = k
      BY <1>1, <2>1
    <3> QED BY <1>4, <1>5, <2>1, <3>1
  <2>2. CASE j # k + 1
    <3>1. j \in 1 .. k
      BY <1>1, <2>2
    <3> QED BY <1>1, <1>5, <3>1
  <2> QED BY <2>1, <2>2
<1>7. a \in Rings(R, D, d, k)
  BY <1>5, <1>6 DEF Rings
<1> QED BY <1>7 DEF a, set, Wider

(* Reach holds nothing but what was reached at that weight.                 *)
LEMMA ReachIs ==
  ASSUME sys \in DOMAIN Systems, Weighed, NEW s, Grown(search, s), Closed(search), NEW w \in Nat,
         \A q \in DOMAIN search.dist \ search.visit : w < search.dist[q]
  PROVE  \A r \in Reach(s, w) : r \in DOMAIN search.dist /\ search.dist[r] <= w
<1> DEFINE D == DOMAIN search.dist
           d == search.dist
           W == weight
           E == Entered[sys]
           Eq(f) == f = [v \in 0 .. w |->
                      IF v = 0 THEN <<{s}>>
                      ELSE LET sets == f[v - 1]
                           IN  Append(sets, Last(sets) \cup {r \in Res : weight[r] <= v
                                 /\ Entered[sys][r] \cap sets[v - weight[r] + 1] # {}})]
           R == CHOOSE f : Eq(f)
           V == [v \in 0 .. w |-> Rings(Res, D, d, v)]
           G == [k \in 1 .. w |-> [q \in Rings(Res, D, d, k - 1) |-> Wider(Res, W, E, k, q)]]
           start == <<{s}>>
<1>1. Reach(s, w) = Last(R[w])
  BY DEF Reach
<1>2. \A f : Eq(f) <=> f = [v \in 0 .. w |-> IF v = 0 THEN start ELSE Wider(Res, W, E, v, f[v - 1])]
  BY DEF Wider
<1>3. /\ W \in [Res -> Nat \ {0}] /\ D \subseteq Res \ Blocks /\ D \subseteq Res /\ d \in [D -> Nat]
      /\ s \in D /\ d[s] = 0
  BY DEF Weighed, Grown
<1>4. ASSUME NEW r \in Res, NEW x \in E[r], x \in D, d[x] <= w
      PROVE  r \in D /\ d[r] <= d[x] + W[r]
  <2>1. x \in Res \ Blocks /\ r \in Res \ Blocks /\ r \in NextOf(x)
    BY <1>4, NextEntered
  <2>2. x \in search.visit
    <3> SUFFICES ASSUME x \notin search.visit PROVE FALSE
      OBVIOUS
    <3>1. w < d[x] /\ d[x] \in Nat
      BY <1>3, <1>4
    <3> HIDE DEF d
    <3> QED BY <1>4, <3>1
  <2> QED BY <2>1, <2>2 DEF Closed
<1> HIDE DEF Eq, R, D, d, W, E
<1>5. start \in Rings(Res, D, d, 0)
  <2>1. start \in Seq(SUBSET Res) /\ Len(start) = 1 /\ start[1] = {s}
    BY <1>3
  <2>2. {s} \subseteq UnderWeight(D, d, 0)
    BY <1>3 DEF UnderWeight
  <2> HIDE DEF start
  <2>3. \A j \in 1 .. 1 : start[j] \subseteq UnderWeight(D, d, j - 1)
    <3>1. \A j \in 1 .. 1 : j = 1 /\ j - 1 = 0
      OBVIOUS
    <3> QED BY <2>1, <2>2, <3>1
  <2> QED BY <2>1, <2>3 DEF Rings
<1> HIDE DEF start
<1>6. \A k \in 1 .. w : \A q \in Rings(Res, D, d, k - 1) : Wider(Res, W, E, k, q) \in Rings(Res, D, d, k)
  BY <1>3, <1>4, WiderIs
<1>7. \E f : Eq(f)
  <2>1. start \in V[0] /\ \A k \in 1 .. w : \A x \in V[k - 1] : G[k][x] \in V[k]
    <3>1. 0 \in 0 .. w /\ \A k \in 1 .. w : k \in 0 .. w /\ k - 1 \in 0 .. w
      OBVIOUS
    <3> QED BY <1>5, <1>6, <3>1
  <2>2. \E h \in [0 .. w -> UNION {V[k] : k \in 0 .. w}] :
          Chain(h, w, start, G) /\ \A k \in 0 .. w : h[k] \in V[k]
    <3> HIDE DEF V, G
    <3> QED BY <2>1, Chained
  <2>3. PICK h \in [0 .. w -> UNION {V[k] : k \in 0 .. w}] :
          Chain(h, w, start, G) /\ \A k \in 0 .. w : h[k] \in V[k]
    BY <2>2
  <2>4. h = [v \in 0 .. w |-> h[v]] /\ h[0] = start /\ \A k \in 1 .. w : h[k] = G[k][h[k - 1]]
    <3> HIDE DEF V, G
    <3> QED BY <2>3 DEF Chain
  <2>5. ASSUME NEW v \in 0 .. w PROVE h[v] = IF v = 0 THEN start ELSE Wider(Res, W, E, v, h[v - 1])
    <3>1. CASE v = 0
      BY <2>4, <3>1
    <3>2. CASE v # 0
      <4>1. v \in 1 .. w /\ v - 1 \in 0 .. w
        BY <3>2
      <4>2. h[v - 1] \in Rings(Res, D, d, v - 1)
        BY <2>3, <4>1
      <4>3. h[v] = G[v][h[v - 1]]
        BY <2>4, <4>1
      <4> QED BY <3>2, <4>1, <4>2, <4>3
    <3> QED BY <3>1, <3>2
  <2>6. h = [v \in 0 .. w |-> IF v = 0 THEN start ELSE Wider(Res, W, E, v, h[v - 1])]
    <3> HIDE DEF V, G
    <3> QED BY <2>4, <2>5
  <2> QED BY <1>2, <2>6
<1>8. R = [v \in 0 .. w |-> IF v = 0 THEN start ELSE Wider(Res, W, E, v, R[v - 1])]
  <2>1. Eq(R)
    BY <1>7 DEF R
  <2> QED BY <1>2, <2>1
<1>9. R[w] \in V[w]
  <2>1. /\ R[0] = start
        /\ \A k \in 1 .. w : R[k] = Wider(Res, W, E, k, R[k - 1])
    <3>1. \A v \in 0 .. w : R[v] = IF v = 0 THEN start ELSE Wider(Res, W, E, v, R[v - 1])
      BY <1>8, Zenon
    <3>2. 0 \in 0 .. w /\ \A k \in 1 .. w : k \in 0 .. w /\ k # 0
      OBVIOUS
    <3> QED BY <3>1, <3>2
  <2>2. start \in V[0] /\ \A k \in 1 .. w : R[k - 1] \in V[k - 1] => R[k] \in V[k]
    <3>1. 0 \in 0 .. w /\ \A k \in 1 .. w : k \in 0 .. w /\ k - 1 \in 0 .. w
      OBVIOUS
    <3> QED BY <1>5, <1>6, <2>1, <3>1
  <2> HIDE DEF V
  <2> QED BY <2>1, <2>2, Followed
<1>10. Last(R[w]) \subseteq UnderWeight(D, d, w)
  <2>1. R[w] \in Rings(Res, D, d, w)
    <3>1. w \in 0 .. w
      OBVIOUS
    <3> QED BY <1>9, <3>1
  <2> DEFINE q == R[w]
  <2> HIDE DEF q
  <2>2. Len(q) = w + 1 /\ \A j \in 1 .. (w + 1) : q[j] \subseteq UnderWeight(D, d, j - 1)
    BY <2>1 DEF Rings, q
  <2>3. w + 1 \in 1 .. (w + 1) /\ (w + 1) - 1 = w
    OBVIOUS
  <2>4. Last(q) = q[w + 1]
    BY <2>2 DEF Last
  <2> QED BY <2>2, <2>3, <2>4 DEF q
<1> QED BY <1>1, <1>10 DEF UnderWeight, D, d

-----------------------------------------------------------------------------
(* When the target is the nearest of what is in the queue, its path is the  *)
(* cheapest; when the queue is empty, there is no path to it.               *)
LEMMA FoundCheapest ==
  ASSUME sys \in DOMAIN Systems, Weighed, NEW s, Grown(search, s), Closed(search),
         NEW t \in Top, t # s
  PROVE  IsCheapest(PathTo(t), s, t)
<1> DEFINE d == search.dist
           w == d[t] - 1
<1>1. /\ t \in DOMAIN d /\ t \notin search.visit
      /\ \A q \in DOMAIN d \ search.visit : d[t] <= d[q]
  BY DEF Top, Queue
<1>2. \A q \in DOMAIN d : d[q] \in Nat
  BY DEF Grown
<1>3. d[t] >= 1
  <2>1. t \in DOMAIN search.path /\ t \in Res
    BY <1>1 DEF Grown
  <2>2. d[t] = d[search.path[t]] + weight[t] /\ search.path[t] \in DOMAIN d
    BY <2>1 DEF Grown
  <2>3. weight[t] \in Nat \ {0}
    BY <2>1 DEF Weighed
  <2>4. d[search.path[t]] \in Nat
    BY <1>2, <2>2
  <2> HIDE DEF d
  <2> QED BY <2>2, <2>3, <2>4
<1>4. w \in Nat /\ \A q \in DOMAIN d \ search.visit : w < d[q]
  BY <1>1, <1>2, <1>3
<1>5. \A r \in Reach(s, w) : r \in DOMAIN d /\ d[r] <= w
  <2>1. \A q \in DOMAIN search.dist \ search.visit : w < search.dist[q]
    BY <1>4
  <2> HIDE DEF w
  <2> QED BY <1>4, <2>1, ReachIs
<1>6. t \notin Reach(s, w)
  <2>1. d[t] \in Nat /\ ~ (d[t] <= d[t] - 1)
    BY <1>1, <1>2
  <2> QED BY <1>5, <2>1
<1>7. t \in DOMAIN search.dist
  BY <1>1
<1> QED BY <1>6, <1>7, PathFound DEF IsCheapest

(* An empty queue: what the search reached is all that can be reached.      *)
LEMMA ReachableIs ==
  ASSUME sys \in DOMAIN Systems, NEW s, Grown(search, s), Closed(search), Queue = {}
  PROVE  Reachable(s) \subseteq DOMAIN search.dist
<1> DEFINE D == DOMAIN search.dist
           n == Len(Graph[sys].res)
           Further(A) == A \cup {r \in Res : Entered[sys][r] \cap A # {}}
           Eq(f) == f = [k \in 0 .. n |->
                      IF k = 0 THEN {s}
                      ELSE LET set == f[k - 1]
                           IN  set \cup {r \in Res : Entered[sys][r] \cap set # {}}]
           R == CHOOSE f : Eq(f)
           V == [k \in 0 .. n |-> SUBSET D]
           G == [k \in 1 .. n |-> [A \in SUBSET D |-> Further(A)]]
<1>1. Reachable(s) = R[n]
  BY DEF Reachable
<1>2. \A f : Eq(f) <=> f = [k \in 0 .. n |-> IF k = 0 THEN {s} ELSE Further(f[k - 1])]
  OBVIOUS
<1>3. n \in Nat
  <2>1. Resources(Arch) \in Seq(Resource(Arch)) /\ Graph[sys].res = Resources(Arch)
    BY SystemIs, ResourcesIs, NextIs
  <2> QED BY <2>1, LenProperties
<1>4. {s} \in SUBSET D
  BY DEF Grown
<1>5. ASSUME NEW r \in Res, NEW x \in Entered[sys][r], x \in D PROVE r \in D
  <2>1. x \in Res \ Blocks /\ r \in Res \ Blocks /\ r \in NextOf(x)
    BY <1>5, NextEntered
  <2>2. x \in search.visit
    BY <1>5 DEF Queue
  <2> QED BY <2>1, <2>2 DEF Closed
<1>6. \A A \in SUBSET D : Further(A) \in SUBSET D
  BY <1>5
<1> HIDE DEF Eq, R, D, n, Further
<1>7. \E f : Eq(f)
  <2>1. {s} \in V[0] /\ \A k \in 1 .. n : \A A \in V[k - 1] : G[k][A] \in V[k]
    <3>1. 0 \in 0 .. n /\ \A k \in 1 .. n : k \in 0 .. n /\ k - 1 \in 0 .. n
      BY <1>3
    <3> QED BY <1>4, <1>6, <3>1
  <2>2. PICK h \in [0 .. n -> UNION {V[k] : k \in 0 .. n}] :
          Chain(h, n, {s}, G) /\ \A k \in 0 .. n : h[k] \in V[k]
    <3> HIDE DEF V, G
    <3> QED BY <1>3, <2>1, Chained
  <2>3. h = [k \in 0 .. n |-> h[k]] /\ h[0] = {s} /\ \A k \in 1 .. n : h[k] = G[k][h[k - 1]]
    <3> HIDE DEF V, G
    <3> QED BY <2>2 DEF Chain
  <2>4. ASSUME NEW k \in 0 .. n PROVE h[k] = IF k = 0 THEN {s} ELSE Further(h[k - 1])
    <3>1. CASE k = 0
      BY <2>3, <3>1
    <3>2. CASE k # 0
      <4>1. k \in 1 .. n /\ k - 1 \in 0 .. n
        BY <1>3, <3>2
      <4>2. h[k - 1] \in SUBSET D
        BY <2>2, <4>1
      <4>3. h[k] = G[k][h[k - 1]]
        BY <2>3, <4>1
      <4> QED BY <3>2, <4>1, <4>2, <4>3
    <3> QED BY <3>1, <3>2
  <2>5. h = [k \in 0 .. n |-> IF k = 0 THEN {s} ELSE Further(h[k - 1])]
    <3> HIDE DEF V, G
    <3> QED BY <2>3, <2>4
  <2> QED BY <1>2, <2>5
<1>8. R = [k \in 0 .. n |-> IF k = 0 THEN {s} ELSE Further(R[k - 1])]
  <2>1. Eq(R)
    BY <1>7 DEF R
  <2> QED BY <1>2, <2>1
<1>9. R[n] \in V[n]
  <2>1. R[0] = {s} /\ \A k \in 1 .. n : R[k] = Further(R[k - 1])
    <3>1. \A k \in 0 .. n : R[k] = IF k = 0 THEN {s} ELSE Further(R[k - 1])
      BY <1>8, Zenon
    <3>2. 0 \in 0 .. n /\ \A k \in 1 .. n : k \in 0 .. n /\ k # 0
      BY <1>3
    <3> QED BY <3>1, <3>2
  <2>2. {s} \in V[0] /\ \A k \in 1 .. n : R[k - 1] \in V[k - 1] => R[k] \in V[k]
    <3>1. 0 \in 0 .. n /\ \A k \in 1 .. n : k \in 0 .. n /\ k - 1 \in 0 .. n
      BY <1>3
    <3> QED BY <1>4, <1>6, <2>1, <3>1
  <2> HIDE DEF V
  <2> QED BY <1>3, <2>1, <2>2, Followed
<1>10. R[n] \subseteq D
  <2>1. n \in 0 .. n
    BY <1>3
  <2> QED BY <1>9, <2>1
<1> QED BY <1>1, <1>10 DEF D

(* Then a target that was not visited cannot be reached.                    *)
LEMMA NoneLeft ==
  ASSUME sys \in DOMAIN Systems, NEW s, Grown(search, s), Closed(search), Queue = {},
         NEW t, t \notin search.visit
  PROVE  t \notin Reachable(s)
<1>1. t \notin DOMAIN search.dist
  BY DEF Queue
<1> QED BY <1>1, ReachableIs

(* The inductive invariant of the search: the nodes stay where they were    *)
(* placed, the weights are not zero, there is a path for each target, and   *)
(* what the search knows is right for the source of the net and for a       *)
(* target that it has not come to.                                          *)
RoutesOK == \A n \in DOMAIN Nets : DOMAIN route[n] = DOMAIN Nets[n].targets

SearchIInv ==
  rt.pc # "idle" =>
    /\ AtOK /\ Weighed /\ RoutesOK
    /\ rt.pc \in {"net", "search"} => rt.target \in Nat \ {0}
    /\ rt.pc = "search" =>
         /\ rt.target \in DOMAIN Nets[rt.net].targets
         /\ Grown(search, Source(rt.net)) /\ Closed(search)
         /\ Target(rt.net, rt.target) \notin search.visit

(* What the graph and the ends of the nets are does not change.             *)
LEMMA SameSearch ==
  ASSUME sys' = sys
  PROVE  /\ Res' = Res /\ Blocks' = Blocks /\ Nets' = Nets /\ Node' = Node
         /\ \A n : (TypeOf(n))' = TypeOf(n) /\ (Position(TypeOf(n)))' = Position(TypeOf(n))
         /\ weight' = weight => (Weighed' <=> Weighed)
         /\ at' = at => /\ AtOK' <=> AtOK
                        /\ \A n : (Source(n))' = Source(n)
                        /\ \A n, i : (Target(n, i))' = Target(n, i)
<1>1. /\ Res' = Res /\ Blocks' = Blocks /\ Nets' = Nets /\ Node' = Node
      /\ \A n : (TypeOf(n))' = TypeOf(n) /\ (Position(TypeOf(n)))' = Position(TypeOf(n))
  BY SameSystem, SameGraph DEF Blocks, TypeOf, Position
<1>2. ASSUME weight' = weight PROVE Weighed' <=> Weighed
  BY <1>1, <1>2 DEF Weighed
<1>3. ASSUME at' = at
      PROVE  /\ AtOK' <=> AtOK
             /\ \A n : (Source(n))' = Source(n)
             /\ \A n, i : (Target(n, i))' = Target(n, i)
  <2>1. AtOK' <=> AtOK
    BY <1>1, <1>3 DEF AtOK
  <2>2. \A n : (Source(n))' = Source(n)
    BY <1>1, <1>3 DEF Source, NormalPort
  <2>3. \A n, i : (Target(n, i))' = Target(n, i)
    BY <1>1, <1>3 DEF Target, NormalPort
  <2> QED BY <2>1, <2>2, <2>3
<1> QED BY <1>1, <1>2, <1>3

(* Steps that leave graph, places and weights alone keep what the search    *)
(* knows.                                                                   *)
LEMMA SameWays ==
  ASSUME sys' = sys, UNCHANGED <<at, weight>>
  PROVE  /\ \A n : Grown(search', Source(n)) => (Grown(search, Source(n)))'
         /\ Closed(search') => (Closed(search))'
<1>1. /\ Res' = Res /\ Blocks' = Blocks /\ \A n : (Source(n))' = Source(n)
      /\ \A r : (NextOf(r))' = NextOf(r)
  BY SameSearch DEF NextOf
<1>2. ASSUME NEW n, Grown(search', Source(n)) PROVE (Grown(search, Source(n)))'
  BY <1>1, <1>2 DEF Grown
<1>3. ASSUME Closed(search') PROVE (Closed(search))'
  BY <1>1, <1>3 DEF Closed
<1> QED BY <1>2, <1>3

-----------------------------------------------------------------------------
(* Steps that leave the places and the weights alone.                       *)
LEMMA SearchGoesOn ==
  ASSUME sys' = sys, SearchIInv, rt.pc # "idle", UNCHANGED <<at, weight>>, RoutesOK',
         rt'.pc \in {"net", "search"} => rt'.target \in Nat \ {0},
         rt'.pc = "search" =>
           /\ rt'.target \in DOMAIN Nets[rt'.net].targets
           /\ Grown(search', Source(rt'.net)) /\ Closed(search')
           /\ Target(rt'.net, rt'.target) \notin search'.visit
  PROVE  SearchIInv'
<1>1. AtOK' /\ Weighed' /\ Nets' = Nets
  BY SameSearch DEF SearchIInv
<1>2. ASSUME rt'.pc = "search"
      PROVE  /\ rt'.target \in DOMAIN Nets'[rt'.net].targets
             /\ (Grown(search, Source(rt.net)))' /\ (Closed(search))'
             /\ (Target(rt.net, rt.target))' \notin search'.visit
  <2>1. \A n : Grown(search', Source(n)) => (Grown(search, Source(n)))'
    BY SameWays
  <2>2. Closed(search') => (Closed(search))'
    BY SameWays
  <2>3. (Source(rt.net))' = Source(rt'.net) /\ (Target(rt.net, rt.target))' = Target(rt'.net, rt'.target)
    BY <1>1, SameGraph, SameSystem DEF Source, Target, NormalPort, TypeOf
  <2>4. (Grown(search, Source(rt.net)))'
    BY <1>2, <2>1, <2>3, SameSearch DEF Grown, NextOf
  <2> QED BY <1>1, <1>2, <2>2, <2>3, <2>4
<1> QED BY <1>1, <1>2 DEF SearchIInv

(* The placement goes to the engine.                                        *)
LEMMA GoRoutingSearches ==
  ASSUME IInv, sys' = sys, GoRouting
  PROVE  SearchIInv'
<1>1. /\ sa.pc = "end" /\ at' = placement.table /\ weight' = [r \in Res |-> 1]
      /\ route' = [n \in DOMAIN Nets |-> [i \in DOMAIN Nets[n].targets |-> <<>>]]
      /\ rt' = Turn(1)
  BY DEF GoRouting
<1>2. rt'.pc \in {"net", "check"} /\ (rt'.pc = "net" => rt'.target = 1)
  <2>1. CASE 1 \in DOMAIN Nets
    BY <1>1, <2>1 DEF Turn
  <2>2. CASE 1 \notin DOMAIN Nets
    BY <1>1, <2>2 DEF Turn
  <2> QED BY <2>1, <2>2
<1>3. AtOK'
  <2>1. DOMAIN placement.table = Node
    BY <1>1 DEF IInv, PlaceIInv, StageOK
  <2>2. \A n \in DOMAIN placement.table : placement.table[n] \in Position(TypeOf(n))
    BY DEF IInv, PlaceIInv, BoardOK, Agrees
  <2> QED BY <1>1, <2>1, <2>2, SameSearch DEF AtOK
<1>4. Weighed'
  <2>1. weight' \in [Res -> Nat \ {0}]
    BY <1>1
  <2> QED BY <2>1, SameSearch DEF Weighed
<1>5. RoutesOK'
  BY <1>1, SameSearch DEF RoutesOK
<1> QED BY <1>2, <1>3, <1>4, <1>5 DEF SearchIInv

(* The search starts from the source of the net.                            *)
LEMMA NextTargetSearches ==
  ASSUME IInv, SearchIInv, sys' = sys, NextTarget
  PROVE  SearchIInv'
<1> DEFINE n == rt.net
           i == rt.target
<1>1. /\ rt.pc = "net" /\ i <= Len(Nets[n].targets)
      /\ search' = NewSearch(Source(n)) /\ rt' = [rt EXCEPT !.pc = "search"]
      /\ UNCHANGED <<at, route, weight>>
  BY DEF NextTarget
<1>2. sys \in DOMAIN Systems /\ n \in DOMAIN Nets /\ DOMAIN rt = {"pc", "net", "target", "first"}
  BY <1>1 DEF IInv, PlaceIInv, RouteIInv, Busy
<1>3. rt'.pc = "search" /\ rt'.net = n /\ rt'.target = i
  BY <1>1, <1>2
<1>4. AtOK /\ RoutesOK /\ i \in Nat \ {0}
  BY <1>1 DEF SearchIInv
<1> HIDE DEF n, i
<1>5. i \in DOMAIN Nets[n].targets
  <2>1. Len(Nets[n].targets) \in Nat /\ DOMAIN Nets[n].targets = 1 .. Len(Nets[n].targets)
    BY <1>2, NetEnds
  <2> QED BY <1>1, <1>4, <2>1
<1>6. Source(n) \in Res \ Blocks /\ Target(n, i) \in Res \ Blocks
  BY <1>2, <1>4, <1>5, EndsIs
<1>7. Grown(search', Source(n)) /\ Closed(search')
  BY <1>1, <1>6, StartOK
<1>8. search'.visit = Blocks
  BY <1>1 DEF NewSearch
<1>9. RoutesOK'
  BY <1>1, <1>4, SameSearch DEF RoutesOK
<1> QED BY <1>1, <1>3, <1>4, <1>5, <1>6, <1>7, <1>8, <1>9, SearchGoesOn

(* What is nearest in the queue is visited.                                 *)
LEMMA ExpandSearches ==
  ASSUME IInv, SearchIInv, sys' = sys, Expand
  PROVE  SearchIInv'
<1> DEFINE n == rt.net
           i == rt.target
<1>1. PICK u \in Top : u # Target(n, i) /\ search' = Relax(u)
  BY DEF Expand
<1>2. rt.pc = "search" /\ UNCHANGED <<at, route, weight, rt>> /\ sys \in DOMAIN Systems
  BY DEF Expand, IInv, PlaceIInv
<1>3. /\ Weighed /\ RoutesOK /\ i \in Nat \ {0} /\ i \in DOMAIN Nets[n].targets
      /\ Grown(search, Source(n)) /\ Closed(search) /\ Target(n, i) \notin search.visit
  BY <1>2 DEF SearchIInv
<1> HIDE DEF n, i
<1>4. /\ Grown(search', Source(n)) /\ Closed(search')
      /\ search'.visit = search.visit \cup {u}
  BY <1>1, <1>2, <1>3, RelaxOK
<1>5. RoutesOK'
  BY <1>2, <1>3, SameSearch DEF RoutesOK
<1>6. rt'.net = n /\ rt'.target = i
  BY <1>2 DEF n, i
<1>7. Target(n, i) \notin search'.visit
  BY <1>1, <1>3, <1>4
<1> QED BY <1>2, <1>3, <1>4, <1>5, <1>6, <1>7, SearchGoesOn

(* The search is over, or a net is recorded.                                *)
LEMMA OtherSearches ==
  ASSUME IInv, SearchIInv, sys' = sys, RecordNet \/ Found \/ NoPath \/ GenerateResult
  PROVE  SearchIInv'
<1>1. /\ rt.pc \in {"net", "search", "check"} /\ UNCHANGED <<at, weight>>
  BY DEF RecordNet, Found, NoPath, GenerateResult
<1>2. /\ DOMAIN rt = {"pc", "net", "target", "first"} /\ RoutesOK
      /\ rt.pc = "search" => rt.target \in Nat \ {0}
      /\ route = [n \in DOMAIN Nets |-> route[n]]
  BY <1>1 DEF IInv, RouteIInv, Busy, SearchIInv
<1>3. /\ rt'.pc \in {"net", "check", "thrown", "done"}
      /\ rt'.pc = "net" => rt'.target \in Nat \ {0}
  <2>1. CASE RecordNet
    <3>1. rt' = Turn(rt.net + 1) \/ rt' = [rt EXCEPT !.pc = "check", !.net = 0, !.target = 0]
      BY <2>1 DEF RecordNet
    <3>2. CASE rt' = Turn(rt.net + 1)
      <4>1. CASE rt.net + 1 \in DOMAIN Nets
        BY <3>2, <4>1 DEF Turn
      <4>2. CASE rt.net + 1 \notin DOMAIN Nets
        BY <3>2, <4>2 DEF Turn
      <4> QED BY <4>1, <4>2
    <3>3. CASE rt' = [rt EXCEPT !.pc = "check", !.net = 0, !.target = 0]
      BY <1>2, <3>3
    <3> QED BY <3>1, <3>2, <3>3
  <2>2. CASE Found
    <3>1. rt.pc = "search" /\ rt' = [rt EXCEPT !.pc = "net", !.target = rt.target + 1]
      BY <2>2 DEF Found
    <3> QED BY <1>2, <3>1
  <2>3. CASE NoPath
    BY <1>2, <2>3 DEF NoPath
  <2>4. CASE GenerateResult
    BY <1>2, <2>4 DEF GenerateResult
  <2> QED BY <2>1, <2>2, <2>3, <2>4
<1>4. RoutesOK'
  <2>1. CASE Found
    <3>1. route' = [route EXCEPT ![rt.net][rt.target] = PathTo(Target(rt.net, rt.target))]
      BY <2>1 DEF Found
    <3>2. \A n \in DOMAIN Nets : DOMAIN route'[n] = DOMAIN route[n]
      <4> DEFINE v == PathTo(Target(rt.net, rt.target))
      <4> HIDE DEF v
      <4>1. route' = [route EXCEPT ![rt.net][rt.target] = v]
        BY <3>1 DEF v
      <4> QED BY <1>2, <4>1
    <3> QED BY <1>2, <3>2, SameSearch DEF RoutesOK
  <2>2. CASE RecordNet \/ NoPath \/ GenerateResult
    <3>1. route' = route
      BY <2>2 DEF RecordNet, NoPath, GenerateResult
    <3> QED BY <1>2, <3>1, SameSearch DEF RoutesOK
  <2> QED BY <2>1, <2>2
<1> QED BY <1>1, <1>3, <1>4, SearchGoesOn

(* Weights grow by what the pool counts.                                    *)
LEMMA RipUpSearches ==
  ASSUME IInv, SearchIInv, sys' = sys, RipUp
  PROVE  SearchIInv'
<1>1. /\ rt.pc = "check" /\ at' = at
      /\ weight' = [r \in Res |-> IF r \in DOMAIN pool THEN weight[r] + pool[r] ELSE weight[r]]
  BY DEF RipUp, UpdateWeight
<1>2. PICK n : /\ route' = [route EXCEPT ![n] = [i \in DOMAIN route[n] |-> <<>>]]
               /\ rt' = [rt EXCEPT !.pc = "net", !.net = n, !.target = 1]
  BY DEF RipUp
<1>3. /\ AtOK /\ Weighed /\ RoutesOK /\ PoolIsOccupancy /\ occupy \in [Res -> Seq(DOMAIN Nets)]
      /\ DOMAIN rt = {"pc", "net", "target", "first"} /\ route = [m \in DOMAIN Nets |-> route[m]]
  BY <1>1 DEF SearchIInv, IInv, RouteIInv, Busy
<1>4. rt'.pc = "net" /\ rt'.target = 1
  BY <1>2, <1>3
<1>5. Weighed'
  <2>1. pool = [r \in {q \in Res : Len(occupy[q]) >= 2} |-> Len(occupy[r])]
    BY <1>1, <1>3 DEF PoolIsOccupancy
  <2>2. \A r \in Res : Len(occupy[r]) \in Nat
    BY <1>3, LenProperties
  <2>3. \A r \in DOMAIN pool : pool[r] \in Nat
    BY <2>1, <2>2
  <2>4. \A r \in Res : weight[r] \in Nat \ {0}
    BY <1>3 DEF Weighed
  <2>5. weight' \in [Res -> Nat \ {0}]
    <3>1. \A r \in Res : (IF r \in DOMAIN pool THEN weight[r] + pool[r] ELSE weight[r]) \in Nat \ {0}
      BY <2>3, <2>4
    <3> QED BY <1>1, <3>1
  <2> QED BY <2>5, SameSearch DEF Weighed
<1>6. RoutesOK'
  <2>1. \A m \in DOMAIN Nets : DOMAIN route'[m] = DOMAIN route[m]
    BY <1>2, <1>3
  <2> QED BY <1>3, <2>1, SameSearch DEF RoutesOK
<1>7. AtOK'
  BY <1>1, <1>3, SameSearch
<1> QED BY <1>4, <1>5, <1>6, <1>7 DEF SearchIInv

(* Steps of other parts.                                                    *)
LEMMA SearchStutters ==
  ASSUME SearchIInv, sys' = sys, UNCHANGED routeVars
  PROVE  SearchIInv'
<1>1. UNCHANGED <<at, route, weight, search, rt>>
  BY DEF routeVars
<1>2. CASE rt.pc = "idle"
  BY <1>1, <1>2 DEF SearchIInv
<1>3. CASE rt.pc # "idle"
  <2>1. RoutesOK'
    BY <1>1, <1>3, SameSearch DEF RoutesOK, SearchIInv
  <2> QED BY <1>1, <1>3, <2>1, SearchGoesOn DEF SearchIInv
<1> QED BY <1>2, <1>3

(* The invariant of the search is kept by every step.                       *)
LEMMA SearchKept ==
  ASSUME IInv, SearchIInv, [Next]_vars
  PROVE  SearchIInv'
<1>1. CASE Place
  <2>1. sys' = sys
    BY <1>1 DEF Place, PlaceNext, RandomGenerate, PutNode, InitCost, Sample,
                StandardDeviation, Over, StartMoves, MoveOnce
  <2>2. UNCHANGED routeVars
    BY <1>1 DEF Place
  <2> QED BY <2>1, <2>2, SearchStutters
<1>2. CASE Route
  <2>1. sys' = sys
    BY <1>2 DEF Route, placeVars
  <2>2. CASE GoRouting
    BY <2>1, <2>2, GoRoutingSearches
  <2>3. CASE NextTarget
    BY <2>1, <2>3, NextTargetSearches
  <2>4. CASE Expand
    BY <2>1, <2>4, ExpandSearches
  <2>5. CASE RecordNet \/ Found \/ NoPath \/ GenerateResult
    BY <2>1, <2>5, OtherSearches
  <2>6. CASE RipUp
    BY <2>1, <2>6, RipUpSearches
  <2> QED BY <1>2, <2>2, <2>3, <2>4, <2>5, <2>6 DEF Route, RouteNext
<1>3. CASE Load \/ Ended \/ UNCHANGED vars
  <2>1. UNCHANGED routeVars /\ sys' = sys
    BY <1>3 DEF Load, Ended, vars, placeVars
  <2> QED BY <2>1, SearchStutters
<1> QED BY <1>1, <1>2, <1>3 DEF Next

(* What a step of the search records is cheapest.                           *)
LEMMA StepCheapest ==
  ASSUME IInv, SearchIInv, [Next]_vars
  PROVE  [CheapestStep]_vars
<1> DEFINE m == rt.net
           j == rt.target
           t == Target(m, j)
<1> SUFFICES ASSUME rt.pc = "search", Next PROVE CheapestStep
  BY DEF CheapestStep
<1>1. /\ sys \in DOMAIN Systems /\ m \in DOMAIN Nets
      /\ AtOK /\ Weighed /\ RoutesOK /\ j \in DOMAIN Nets[m].targets
      /\ Grown(search, Source(m)) /\ Closed(search) /\ t \notin search.visit
      /\ route = [n \in DOMAIN Nets |-> route[n]]
  BY DEF IInv, PlaceIInv, RouteIInv, Busy, SearchIInv
<1>2. t \in Res \ Blocks /\ Source(m) # t
  <2> HIDE DEF m, j
  <2> QED BY <1>1, EndsIs DEF t
<1> HIDE DEF m, j, t
<1>3. CASE Route /\ Found
  <2>1. t \in Top /\ route' = [route EXCEPT ![m][j] = PathTo(t)] /\ rt' = [rt EXCEPT !.pc = "net", !.target = @ + 1]
    BY <1>3 DEF Found, m, j, t
  <2>2. IsCheapest(PathTo(t), Source(m), t)
    BY <1>1, <1>2, <2>1, FoundCheapest
  <2>3. rt'.pc # "thrown"
    BY <2>1 DEF IInv, RouteIInv, Busy
  <2>4. ASSUME NEW n \in DOMAIN Nets, NEW i \in DOMAIN Nets[n].targets, route'[n][i] # route[n][i]
        PROVE  IsCheapest(route'[n][i], Source(n), Target(n, i))
    <3> DEFINE p == PathTo(t)
    <3>1. route' = [route EXCEPT ![m][j] = p]
      BY <2>1
    <3> HIDE DEF p
    <3>2. i \in DOMAIN route[n] /\ n \in DOMAIN route
      BY <1>1 DEF RoutesOK
    <3>3. n = m /\ i = j /\ route'[n][i] = p
      BY <1>1, <2>4, <3>1, <3>2
    <3> QED BY <2>2, <3>3 DEF p, t
  <2> QED BY <2>3, <2>4 DEF CheapestStep
<1>4. CASE Route /\ NoPath
  <2>1. route' = route /\ Queue = {}
    BY <1>4 DEF NoPath
  <2>2. t \notin Reachable(Source(m))
    BY <1>1, <2>1, NoneLeft
  <2> QED BY <2>1, <2>2 DEF CheapestStep, m, j, t
<1>5. CASE route' = route /\ rt' = rt
  BY <1>5 DEF CheapestStep
<1>6. Route => Found \/ NoPath \/ Expand
  BY DEF Route, RouteNext, GoRouting, NextTarget, RecordNet, RipUp, GenerateResult
<1>7. CASE ~ (Route /\ (Found \/ NoPath))
  <2>1. route' = route /\ rt' = rt
    BY <1>6, <1>7 DEF Next, Load, Place, Ended, Expand, routeVars, vars
  <2> QED BY <1>5, <2>1
<1> QED BY <1>3, <1>4, <1>7

(* Every path that the search finds is a cheapest one, for every graph, net *)
(* and weights, and when it gives up the target cannot be reached from the  *)
(* source (routing_engine.cpp:337-399).                                     *)
THEOREM PathsCheapest == Spec => CheapestPath
<1>1. Init => SearchIInv
  BY DEF Init, RouteInit, SearchIInv
<1>2. IInv /\ SearchIInv /\ [Next]_vars => SearchIInv'
  BY SearchKept
<1>3. IInv /\ SearchIInv /\ [Next]_vars => [CheapestStep]_vars
  BY StepCheapest
<1> QED BY <1>1, <1>2, <1>3, Invariance, PTL DEF Spec, CheapestPath
=============================================================================
