----------------------------- MODULE FileProofs -----------------------------
(***************************************************************************)
(* Reading and writing one file: for any number of open files, any length, *)
(* sector size and sizes of transfers, transfers that do not overlap move  *)
(* exactly the bytes they were asked to move, and the inode counts the     *)
(* files that deny writes.                                                 *)
(*                                                                         *)
(* The invariant says of a transfer under way how far it is, that what it  *)
(* has read is what the file holds, and that its bounce buffer is the      *)
(* sector it was read from; the last two only while no transfer has begun  *)
(* during another one, for then nobody else writes.                        *)
(***************************************************************************)
EXTENDS FileIO, TLAPS

Active(f) == iopc[f] \notin {"idle", "closed"}

\* How far a transfer is.
Progress(f) ==
  /\ DOMAIN call[f] = DOMAIN NoTransfer
  /\ call[f].ask \in Nat /\ call[f].size \in Nat
  /\ call[f].offset \in Nat /\ call[f].done \in Nat
  /\ Active(f) => /\ call[f].offset = pos[f] + call[f].done
                  /\ call[f].done + call[f].size = call[f].ask
                  /\ call[f].done > 0 => call[f].offset <= Length
  /\ iopc[f] = "bounce" => More(f)
  /\ iopc[f] \in {"write", "bounce"} => call[f].byte # 0
  /\ iopc[f] = "return" /\ ~call[f].denied => ~More(f)

\* What a transfer that nobody disturbs has read.
Undisturbed(f) ==
  /\ iopc[f] = "bounce" => call[f].bounce = sectors[sector_idx(f)]
  /\ Active(f) /\ call[f].byte = 0 =>
       call[f].buffer = [i \in 1..call[f].done |-> content[pos[f] + i - 1]]

\* n bytes of a file from p on.
Stretch(F, p, n) == [i \in 1..n |-> F[p + i - 1]]

\* What a step of one file does to the transfers: only f's moves, to l; its
\* record goes on by a chunk, or is new.
OnlyMoves(f, l) ==
  /\ DOMAIN iopc' = File /\ DOMAIN call' = File /\ iopc'[f] = l
  /\ \A g \in File : g # f => iopc'[g] = iopc[g] /\ call'[g] = call[g]
Advanced(f, rec) ==
  /\ DOMAIN call'[f] = DOMAIN NoTransfer
  /\ call'[f].byte = rec.byte /\ call'[f].ask = rec.ask
  /\ call'[f].buffer = rec.buffer /\ call'[f].denied = rec.denied
  /\ call'[f].size = rec.size - chunk_size(f)
  /\ call'[f].offset = rec.offset + chunk_size(f)
  /\ call'[f].done = rec.done + chunk_size(f)
Begun(f, b, n, l) ==
  /\ DOMAIN call'[f] = DOMAIN NoTransfer
  /\ call'[f].byte = b /\ call'[f].ask = n /\ call'[f].size = n
  /\ call'[f].offset = pos[f] /\ call'[f].done = 0 /\ call'[f].buffer = <<>>
  /\ call'[f].denied <=> l = "return"

Alone == \A f, g \in File : Active(f) /\ Active(g) => f = g

IOTypes ==
  /\ DOMAIN sectors = SectorIdx /\ DOMAIN content = 0..(Length - 1)
  /\ DOMAIN iopc = File /\ DOMAIN call = File /\ pos \in [File -> Nat]

DenyInv == deny_write \in [File -> BOOLEAN] /\ DenyCounts

TransferInv ==
  /\ IOTypes
  /\ \A f \in File : Progress(f)
  /\ ~overlap => Alone /\ BytesLand /\ \A f \in File : Undisturbed(f)

-----------------------------------------------------------------------------
(* First-order reasoning closes most leaves; the ones about numbers and    *)
(* records cite SMT.                                                       *)
USE Zenon

\* Quotient and remainder are determined by the sum they make.
LEMMA DivMod ==
  ASSUME NEW q \in Nat, NEW r \in 0..(SS - 1), NEW x, x = SS * q + r
  PROVE  x \div SS = q /\ x % SS = r
<1>1. SS \in Nat \ {0}
  BY FileIOAssumption
<1> QED BY <1>1, SMT

\* An offset is its sector and the offset in it.
LEMMA Split ==
  ASSUME NEW x \in Nat
  PROVE  x \div SS \in Nat /\ x % SS \in 0..(SS - 1) /\ x = SS * (x \div SS) + (x % SS)
<1>1. SS \in Nat \ {0}
  BY FileIOAssumption
<1> QED BY <1>1, SMT

\* Every byte of the file is in one of its sectors.
LEMMA InFile ==
  ASSUME NEW o \in Nat, o < Length
  PROVE  o \div SS \in SectorIdx
<1>1. SS \in Nat \ {0} /\ Length \in Nat
  BY FileIOAssumption
<1> DEFINE q == o \div SS
           n == Length + SS - 1
           m == n \div SS
<1>2. q \in Nat /\ SS * q <= o
  BY <1>1, Split, SMT
<1>3. n \in Nat
  BY <1>1, SMT
<1> HIDE DEF n
<1>4. m \in Nat /\ n < SS * m + SS
  BY <1>1, <1>3, Split, SMT
<1> HIDE DEF q, m
<1>5. SS * q + SS <= n
  BY <1>1, <1>2, SMT DEF n
<1>6. SS * q < SS * m
  BY <1>1, <1>2, <1>3, <1>4, <1>5, SMT
<1>7. q < m
  BY <1>1, <1>2, <1>4, <1>6, SMT
<1>8. q \in 0..(m - 1)
  BY <1>2, <1>4, <1>7, SMT
<1> QED BY <1>8 DEF q, m, n, SectorIdx, bytes_to_sectors

\* The chunk lies in one sector, in the file, and in what is left to transfer.
LEMMA ChunkFacts ==
  ASSUME NEW f \in File, Progress(f)
  PROVE  /\ sector_idx(f) \in Nat /\ sector_ofs(f) \in 0..(SS - 1) /\ chunk_size(f) \in Int
         /\ call[f].offset = SS * sector_idx(f) + sector_ofs(f)
         /\ chunk_size(f) <= call[f].size /\ call[f].offset + chunk_size(f) <= Length
         /\ sector_ofs(f) + chunk_size(f) <= SS
         /\ More(f) => chunk_size(f) \in Nat \ {0} /\ sector_idx(f) \in SectorIdx
         /\ ~More(f) => call[f].size = 0 \/ call[f].offset >= Length
<1>1. SS \in Nat \ {0} /\ Length \in Nat /\ call[f].size \in Nat /\ call[f].offset \in Nat
  BY FileIOAssumption DEF Progress
<1>2. /\ sector_idx(f) \in Nat /\ sector_ofs(f) \in 0..(SS - 1)
      /\ call[f].offset = SS * sector_idx(f) + sector_ofs(f)
  BY <1>1, Split DEF sector_idx, sector_ofs
<1>3. /\ chunk_size(f) \in Int
      /\ chunk_size(f) <= call[f].size /\ call[f].offset + chunk_size(f) <= Length
      /\ sector_ofs(f) + chunk_size(f) <= SS
      /\ \/ chunk_size(f) = call[f].size \/ chunk_size(f) = Length - call[f].offset
         \/ chunk_size(f) > 0
  <2>1. PICK o \in 0..(SS - 1) : o = sector_ofs(f)
    BY <1>2
  <2>2. PICK x \in Nat, z \in Nat : x = call[f].offset /\ z = call[f].size
    BY <1>1
  <2>3. chunk_size(f) = Min2(z, Min2(Length - x, SS - o))
    BY <2>1, <2>2 DEF chunk_size, sector_left
  <2>4. PICK c : c = Min2(z, Min2(Length - x, SS - o))
    OBVIOUS
  <2>5. c \in Int /\ c <= z /\ x + c <= Length /\ o + c <= SS /\ (c = z \/ c = Length - x \/ c > 0)
    BY <1>1, <2>4, SMT DEF Min2
  <2> QED BY <2>1, <2>2, <2>3, <2>4, <2>5
<1>4. ASSUME More(f) PROVE chunk_size(f) \in Nat \ {0} /\ sector_idx(f) \in SectorIdx
  <2>1. chunk_size(f) > 0
    BY <1>4 DEF More
  <2>2. chunk_size(f) \in Nat \ {0} /\ call[f].offset < Length
    BY <1>1, <1>3, <2>1, SMT
  <2> QED BY <1>1, <2>2, InFile DEF sector_idx
<1>5. ASSUME ~More(f) PROVE call[f].size = 0 \/ call[f].offset >= Length
  <2>1. ~(call[f].size > 0) \/ ~(chunk_size(f) > 0)
    BY <1>5 DEF More
  <2> QED BY <1>1, <1>3, <2>1, SMT
<1> QED BY <1>2, <1>3, <1>4, <1>5

\* A file whose transfer does not move.
LEMMA ProgressSame ==
  ASSUME NEW f \in File, Progress(f),
         call'[f] = call[f], iopc'[f] = iopc[f], pos'[f] = pos[f]
  PROVE  Progress(f)'
BY DEF Progress, Active, More, chunk_size, sector_left, sector_ofs

\* One file's transfer moves on by a chunk.
LEMMA AdvanceFacts ==
  ASSUME IOTypes, NEW f \in File, Progress(f), More(f), NEW rec, NEW l,
         DOMAIN rec = DOMAIN NoTransfer, Advance(f, rec, l)
  PROVE  OnlyMoves(f, l) /\ Advanced(f, rec)
<1>1. PICK c : c = chunk_size(f)
  OBVIOUS
<1> DEFINE new == [rec EXCEPT !.size = @ - c, !.offset = @ + c, !.done = @ + c]
<1>2. call' = [call EXCEPT ![f] = new] /\ iopc' = [iopc EXCEPT ![f] = l]
  BY <1>1 DEF Advance
<1>3. DOMAIN rec = {"byte", "ask", "size", "offset", "done", "buffer", "bounce", "denied"}
  BY SMT DEF NoTransfer
<1>4. /\ DOMAIN new = DOMAIN rec /\ new.size = rec.size - c /\ new.offset = rec.offset + c
      /\ new.done = rec.done + c /\ new.byte = rec.byte /\ new.ask = rec.ask
      /\ new.buffer = rec.buffer /\ new.denied = rec.denied
  BY <1>3, SMT
<1> HIDE DEF new
<1>5. call'[f] = new /\ iopc'[f] = l
  BY <1>2 DEF IOTypes
<1>6. /\ DOMAIN iopc' = File /\ DOMAIN call' = File
      /\ \A g \in File : g # f => iopc'[g] = iopc[g] /\ call'[g] = call[g]
  BY <1>2 DEF IOTypes
<1> QED BY <1>1, <1>4, <1>5, <1>6 DEF OnlyMoves, Advanced

\* A chunk moved: the transfer is further, and still consistent.
LEMMA AdvanceProgress ==
  ASSUME IOTypes, NEW f \in File, \A g \in File : Progress(g), Active(f), More(f),
         NEW rec, NEW l \in {"read", "write"},
         DOMAIN rec = DOMAIN NoTransfer, rec.byte = call[f].byte, rec.ask = call[f].ask,
         rec.size = call[f].size, rec.offset = call[f].offset, rec.done = call[f].done,
         l = "write" => call[f].byte # 0,
         Advance(f, rec, l), UNCHANGED pos
  PROVE  \A g \in File : Progress(g)'
<1>0. Progress(f) /\ OnlyMoves(f, l) /\ Advanced(f, rec)
  BY AdvanceFacts
<1>1. ASSUME NEW g \in File, g # f PROVE Progress(g)'
  BY <1>0, <1>1, ProgressSame DEF OnlyMoves
<1>2. Progress(f)'
  <2>1. /\ iopc'[f] = l /\ DOMAIN call'[f] = DOMAIN NoTransfer
        /\ call'[f].byte = call[f].byte /\ call'[f].ask = call[f].ask
        /\ call'[f].size = call[f].size - chunk_size(f)
        /\ call'[f].offset = call[f].offset + chunk_size(f)
        /\ call'[f].done = call[f].done + chunk_size(f)
    BY <1>0 DEF OnlyMoves, Advanced
  <2>2. PICK z \in Nat, x \in Nat, d \in Nat, a \in Nat :
          z = call[f].size /\ x = call[f].offset /\ d = call[f].done /\ a = call[f].ask
    BY DEF Progress
  <2>3. PICK c \in Nat \ {0} : c = chunk_size(f) /\ c <= z /\ x + c <= Length
    BY <2>2, ChunkFacts
  <2>4. PICK p \in Nat : p = pos[f] /\ x = p + d /\ d + z = a
    BY <2>2 DEF Progress, IOTypes
  <2>5. /\ z - c \in Nat /\ x + c \in Nat /\ d + c \in Nat
        /\ x + c = p + (d + c) /\ (d + c) + (z - c) = a
    BY <2>3, <2>4, SMT
  <2>6. /\ call'[f].size = z - c /\ call'[f].offset = x + c /\ call'[f].done = d + c
        /\ call'[f].ask = a /\ pos'[f] = p
    BY <2>1, <2>2, <2>3, <2>4
  <2>7. iopc'[f] # "bounce" /\ iopc'[f] # "return" /\ (iopc'[f] \in {"write", "bounce"} => l = "write")
    BY <2>1, SMT
  <2> QED BY <2>1, <2>3, <2>5, <2>6, <2>7 DEF Progress
<1> QED BY <1>1, <1>2

\* Two stretches of the file, one after the other.
LEMMA Concat ==
  ASSUME NEW F, NEW p \in Nat, NEW n \in Nat, NEW c \in Nat
  PROVE  Stretch(F, p, n) \o Stretch(F, p + n, c) = Stretch(F, p, n + c)
<1> DEFINE S == {F[x] : x \in Int}
           a == [i \in 1..n |-> F[p + i - 1]]
           b == [i \in 1..c |-> F[p + n + i - 1]]
           e == [i \in 1..(n + c) |-> F[p + i - 1]]
<1>1. a \in Seq(S) /\ Len(a) = n /\ \A i \in 1..n : a[i] = F[p + i - 1]
  BY SMT
<1>2. b \in Seq(S) /\ Len(b) = c /\ \A i \in 1..c : b[i] = F[p + n + i - 1]
  BY SMT
<1>3. e \in Seq(S) /\ Len(e) = n + c /\ \A i \in 1..(n + c) : e[i] = F[p + i - 1]
  <2>1. PICK m \in Nat : m = n + c
    BY SMT
  <2>2. /\ [i \in 1..m |-> F[p + i - 1]] \in Seq(S)
        /\ Len([i \in 1..m |-> F[p + i - 1]]) = m
    BY SMT
  <2> QED BY <2>1, <2>2
<1> HIDE DEF a, b, e, S
<1>4. a \o b \in Seq(S) /\ Len(a \o b) = n + c
  <2>1. a \in Seq(S) /\ b \in Seq(S) /\ Len(a) = n /\ Len(b) = c
    BY <1>1, <1>2
  <2> QED BY <2>1, SMT
<1>5. ASSUME NEW i \in 1..(n + c) PROVE (a \o b)[i] = e[i]
  <2>1. CASE i <= n
    BY <1>1, <1>2, <1>3, <2>1, SMT
  <2>2. CASE ~(i <= n)
    <3>1. i - n \in 1..c /\ p + n + (i - n) - 1 = p + i - 1
      BY <2>2, SMT
    <3>2. (a \o b)[i] = b[i - n]
      BY <1>1, <1>2, <2>2, SMT
    <3> QED BY <1>2, <1>3, <3>1, <3>2
  <2> QED BY <2>1, <2>2
<1>6. a \o b = e
  <2>1. PICK v : v = a \o b
    OBVIOUS
  <2>2. PICK m \in Nat : m = n + c
    BY SMT
  <2>3. v \in Seq(S) /\ e \in Seq(S) /\ Len(v) = m /\ Len(e) = m /\ \A i \in 1..m : v[i] = e[i]
    BY <1>3, <1>4, <1>5, <2>1, <2>2
  <2>4. v = e
    BY <2>3, SMT
  <2> QED BY <2>1, <2>4
<1> QED BY <1>6 DEF a, b, e, Stretch

\* A chunk that is put changes its own bytes and no other.
LEMMA PutLands ==
  ASSUME IOTypes, NEW f \in File, Progress(f), More(f), BytesLand,
         Put(f, Filled(f, sectors[sector_idx(f)]))
  PROVE  BytesLand'
<1>1. ASSUME NEW o \in 0..(Length - 1)
      PROVE  sectors'[o \div SS][o % SS] = content'[o]
  <2>1. o \in Nat /\ o < Length
    BY FileIOAssumption, SMT
  <2>2. o \div SS \in SectorIdx /\ o % SS \in InSector
    BY <2>1, InFile, Split DEF InSector
  <2>3. sectors[o \div SS][o % SS] = content[o] /\ o \in DOMAIN content
    BY DEF BytesLand, IOTypes
  <2>4. /\ sectors' = [sectors EXCEPT ![sector_idx(f)] = Filled(f, sectors[sector_idx(f)])]
        /\ content'[o] = IF o \div SS = sector_idx(f) /\ o % SS \in Chunk(f)
                         THEN call[f].byte ELSE content[o]
    BY <2>3 DEF Put
  <2>5. CASE o \div SS = sector_idx(f)
    <3>1. sectors'[o \div SS] = Filled(f, sectors[o \div SS])
      BY <2>2, <2>4, <2>5 DEF IOTypes
    <3>2. sectors'[o \div SS][o % SS] = IF o % SS \in Chunk(f) THEN call[f].byte
                                       ELSE sectors[o \div SS][o % SS]
      BY <2>2, <3>1 DEF Filled
    <3> QED BY <2>3, <2>4, <2>5, <3>2
  <2>6. CASE o \div SS # sector_idx(f)
    BY <2>2, <2>3, <2>4, <2>6 DEF IOTypes
  <2> QED BY <2>5, <2>6
<1> QED BY <1>1 DEF BytesLand

\* While f is the one transfer, the others have nothing to disturb.
LEMMA OthersQuiet ==
  ASSUME Alone, NEW f \in File, Active(f), NEW g \in File, g # f, iopc'[g] = iopc[g]
  PROVE  Undisturbed(g)' /\ ~Active(g)'
<1>1. iopc[g] \in {"idle", "closed"}
  BY DEF Alone, Active
<1>2. iopc'[g] # "bounce" /\ ~Active(g)'
  BY <1>1, SMT DEF Active
<1> QED BY <1>2 DEF Undisturbed

\* The new record of a transfer.
LEMMA BeginFacts ==
  ASSUME IOTypes, NEW f \in File, NEW b, NEW n, NEW l, Begin(f, b, n, l)
  PROVE  OnlyMoves(f, l) /\ Begun(f, b, n, l)
<1> DEFINE new == [NoTransfer EXCEPT !.byte = b, !.ask = n, !.size = n, !.offset = pos[f],
                                     !.denied = (l = "return")]
<1>1. call' = [call EXCEPT ![f] = new] /\ iopc' = [iopc EXCEPT ![f] = l]
  BY DEF Begin
<1>2. /\ DOMAIN new = DOMAIN NoTransfer /\ new.byte = b /\ new.ask = n /\ new.size = n
      /\ new.offset = pos[f] /\ new.done = 0 /\ new.buffer = <<>>
  BY SMT DEF NoTransfer
<1>5. new.denied <=> l = "return"
  BY DEF NoTransfer
<1> HIDE DEF new
<1>3. call'[f] = new /\ iopc'[f] = l
  BY <1>1 DEF IOTypes
<1>4. /\ DOMAIN iopc' = File /\ DOMAIN call' = File
      /\ \A g \in File : g # f => iopc'[g] = iopc[g] /\ call'[g] = call[g]
  BY <1>1 DEF IOTypes
<1> QED BY <1>2, <1>3, <1>4, <1>5 DEF OnlyMoves, Begun

\* file_read() and file_write() begin a transfer.
LEMMA BeginStep ==
  ASSUME TransferInv, NEW f \in File, NEW b, NEW n \in Nat,
         NEW l \in {"read", "write", "return"}, l = "write" => b # 0, Begin(f, b, n, l)
  PROVE  TransferInv'
<1>1. IOTypes /\ UNCHANGED <<sectors, content, pos>> /\ OnlyMoves(f, l) /\ Begun(f, b, n, l)
  BY BeginFacts DEF TransferInv, Begin, fields
<1>2. IOTypes'
  BY <1>1 DEF IOTypes, OnlyMoves
<1>3. ASSUME NEW g \in File, g # f PROVE Progress(g)'
  <2>1. Progress(g)
    BY DEF TransferInv
  <2> QED BY <1>1, <1>3, <2>1, ProgressSame DEF OnlyMoves
<1>4. Progress(f)'
  <2>1. /\ iopc'[f] = l /\ DOMAIN call'[f] = DOMAIN NoTransfer
        /\ call'[f].byte = b /\ call'[f].ask = n /\ call'[f].size = n
        /\ call'[f].offset = pos[f] /\ call'[f].done = 0
        /\ call'[f].denied <=> l = "return"
    BY <1>1 DEF OnlyMoves, Begun
  <2>2. PICK p \in Nat : p = pos[f] /\ p = pos'[f]
    BY <1>1 DEF IOTypes
  <2>3. p = p + 0 /\ 0 + n = n /\ ~(0 > 0) /\ 0 \in Nat
    BY SMT
  <2>4. iopc'[f] # "bounce" /\ (iopc'[f] \in {"write", "bounce"} => l = "write")
    BY <2>1, SMT
  <2> QED BY <2>1, <2>2, <2>3, <2>4 DEF Progress
<1>5. ASSUME ~overlap' PROVE Alone' /\ BytesLand' /\ \A g \in File : Undisturbed(g)'
  <2>1. ~overlap /\ \A g \in File : ~Active(g)
    BY <1>5 DEF Begin, Active
  <2>2. ASSUME NEW g \in File, g # f PROVE ~Active(g)' /\ iopc'[g] # "bounce"
    <3>1. iopc'[g] \in {"idle", "closed"}
      BY <1>1, <2>1, <2>2 DEF Active, OnlyMoves
    <3> QED BY <3>1, SMT DEF Active
  <2>3. Alone'
    BY <2>2 DEF Alone
  <2>4. BytesLand'
    BY <1>1, <2>1 DEF TransferInv, BytesLand
  <2>5. Undisturbed(f)'
    <3>1. iopc'[f] # "bounce" /\ call'[f].done = 0 /\ call'[f].buffer = <<>>
      <4>1. l # "bounce"
        BY SMT
      <4> QED BY <1>1, <4>1 DEF OnlyMoves, Begun
    <3>2. <<>> = [i \in 1..0 |-> content'[pos'[f] + i - 1]]
      BY SMT
    <3> QED BY <3>1, <3>2 DEF Undisturbed
  <2> QED BY <2>2, <2>3, <2>4, <2>5 DEF Undisturbed
<1> QED BY <1>2, <1>3, <1>4, <1>5 DEF TransferInv

\* Nobody else is active after a step of the one transfer there is.
LEMMA AloneSame ==
  ASSUME Alone, NEW f \in File, Active(f), NEW l, OnlyMoves(f, l)
  PROVE  Alone' /\ \A g \in File : g # f => Undisturbed(g)'
<1>1. ASSUME NEW g \in File, g # f PROVE Undisturbed(g)' /\ ~Active(g)'
  BY <1>1, OthersQuiet DEF OnlyMoves
<1> QED BY <1>1 DEF Alone

\* inode_read_at() reads a chunk: the bytes the file holds there.
LEMMA ReadStep ==
  ASSUME TransferInv, NEW f \in File, read_chunk(f)
  PROVE  TransferInv'
<1> DEFINE d == sectors[sector_idx(f)]
           new == [i \in 1..chunk_size(f) |-> d[sector_ofs(f) + i - 1]]
           rec == [call[f] EXCEPT !.buffer = @ \o new]
<1>1. /\ IOTypes /\ Progress(f) /\ Active(f) /\ More(f) /\ Advance(f, rec, "read")
      /\ UNCHANGED <<sectors, content, pos, overlap>>
  <2>1. iopc[f] = "read"
    BY DEF read_chunk
  <2>2. Active(f)
    BY <2>1, SMT DEF Active
  <2> QED BY <2>2 DEF TransferInv, read_chunk, fields
<1>2. /\ DOMAIN rec = DOMAIN NoTransfer /\ rec.byte = call[f].byte /\ rec.ask = call[f].ask
      /\ rec.size = call[f].size /\ rec.offset = call[f].offset /\ rec.done = call[f].done
      /\ rec.buffer = call[f].buffer \o new
  <2>1. DOMAIN call[f] = {"byte", "ask", "size", "offset", "done", "buffer", "bounce", "denied"}
    BY <1>1, SMT DEF Progress, NoTransfer
  <2>2. PICK x : x = call[f].buffer \o new
    OBVIOUS
  <2>3. rec = [call[f] EXCEPT !.buffer = x]
    BY <2>2
  <2> HIDE DEF rec, new
  <2>4. /\ DOMAIN rec = DOMAIN call[f] /\ rec.byte = call[f].byte /\ rec.ask = call[f].ask
        /\ rec.size = call[f].size /\ rec.offset = call[f].offset /\ rec.done = call[f].done
        /\ rec.buffer = x
    BY <2>1, <2>3, SMT
  <2> QED BY <1>1, <2>2, <2>4 DEF Progress
<1> HIDE DEF rec
<1>3. OnlyMoves(f, "read") /\ Advanced(f, rec)
  BY <1>1, <1>2, AdvanceFacts
<1>4. \A g \in File : Progress(g)'
  <2>1. \A g \in File : Progress(g)
    BY DEF TransferInv
  <2>2. "read" \in {"read", "write"} /\ "read" # "write"
    BY SMT
  <2> QED BY <1>1, <1>2, <2>1, <2>2, AdvanceProgress
<1>5. IOTypes'
  BY <1>1, <1>3 DEF IOTypes, OnlyMoves
<1>6. ASSUME ~overlap' PROVE Alone' /\ BytesLand' /\ \A g \in File : Undisturbed(g)'
  <2>1. ~overlap /\ Alone /\ BytesLand /\ Undisturbed(f)
    BY <1>1, <1>6 DEF TransferInv
  <2>2. Alone' /\ \A g \in File : g # f => Undisturbed(g)'
    BY <1>1, <1>3, <2>1, AloneSame
  <2>3. BytesLand'
    BY <1>1, <2>1 DEF BytesLand
  <2>4. Undisturbed(f)'
    <3>1. iopc'[f] # "bounce"
      BY <1>3, SMT DEF OnlyMoves
    <3>2. SUFFICES ASSUME call'[f].byte = 0
                   PROVE  call'[f].buffer = [i \in 1..call'[f].done |-> content'[pos'[f] + i - 1]]
      BY <3>1 DEF Undisturbed
    <3>3. PICK p \in Nat, n \in Nat, c \in Nat :
            p = pos[f] /\ n = call[f].done /\ c = chunk_size(f)
      <4>1. pos[f] \in Nat /\ call[f].done \in Nat /\ chunk_size(f) \in Nat
        BY <1>1, ChunkFacts DEF Progress, IOTypes
      <4> QED BY <4>1
    <3>4. /\ call'[f].done = n + c /\ pos'[f] = p /\ content' = content
          /\ call'[f].buffer = call[f].buffer \o new
      BY <1>1, <1>2, <1>3, <3>3 DEF Advanced
    <3>5. call[f].buffer = [i \in 1..n |-> content[p + i - 1]]
      BY <1>1, <1>2, <1>3, <2>1, <3>2, <3>3 DEF Undisturbed, Advanced
    <3>6. new = [i \in 1..c |-> content[p + n + i - 1]]
      <4>1. ASSUME NEW i \in 1..c PROVE d[sector_ofs(f) + i - 1] = content[p + n + i - 1]
        <5>1. PICK q \in Nat, o \in 0..(SS - 1) :
                /\ q = sector_idx(f) /\ o = sector_ofs(f)
                /\ call[f].offset = SS * q + o /\ call[f].offset + c <= Length /\ o + c <= SS
          BY <1>1, <3>3, ChunkFacts
        <5>2. call[f].offset = p + n
          BY <1>1, <3>3 DEF Progress
        <5>3. /\ o + i - 1 \in 0..(SS - 1) /\ p + n + i - 1 \in 0..(Length - 1)
              /\ p + n + i - 1 = SS * q + (o + i - 1)
          <6>1. PICK m \in Int : m = SS * q
            BY FileIOAssumption, SMT
          <6>2. m + o = p + n /\ p + n + c <= Length /\ o + c <= SS
            BY <5>1, <5>2, <6>1
          <6>3. SS \in Nat /\ Length \in Nat
            BY FileIOAssumption
          <6>4. /\ o + i - 1 \in 0..(SS - 1) /\ p + n + i - 1 \in 0..(Length - 1)
                /\ p + n + i - 1 = m + (o + i - 1)
            BY <6>2, <6>3, SMT
          <6> QED BY <6>1, <6>4
        <5>4. (p + n + i - 1) \div SS = q /\ (p + n + i - 1) % SS = o + i - 1
          <6>1. PICK x, k : x = p + n + i - 1 /\ k = o + i - 1
            OBVIOUS
          <6>2. k \in 0..(SS - 1) /\ x = SS * q + k
            BY <5>3, <6>1
          <6>3. x \div SS = q /\ x % SS = k
            BY <6>2, DivMod
          <6> QED BY <6>1, <6>3
        <5>5. sectors[q][o + i - 1] = content[p + n + i - 1]
          BY <2>1, <5>3, <5>4 DEF BytesLand
        <5> QED BY <5>1, <5>5
      <4> QED BY <3>3, <4>1
    <3>7. [i \in 1..n |-> content[p + i - 1]] \o [i \in 1..c |-> content[p + n + i - 1]]
            = [i \in 1..(n + c) |-> content[p + i - 1]]
      <4>1. Stretch(content, p, n) \o Stretch(content, p + n, c) = Stretch(content, p, n + c)
        BY Concat
      <4> QED BY <4>1 DEF Stretch
    <3> QED BY <3>4, <3>5, <3>6, <3>7
  <2> QED BY <2>2, <2>3, <2>4
<1> QED BY <1>4, <1>5, <1>6 DEF TransferInv

\* inode_write_at() writes a chunk, directly or from the bounce buffer: rec is
\* the record before, without the bounce buffer.
LEMMA WriteStep ==
  ASSUME TransferInv, NEW f \in File, iopc[f] \in {"write", "bounce"}, More(f),
         NEW rec, DOMAIN rec = DOMAIN NoTransfer, rec.byte = call[f].byte,
         rec.ask = call[f].ask, rec.size = call[f].size, rec.offset = call[f].offset,
         rec.done = call[f].done, NEW d, ~overlap => d = sectors[sector_idx(f)],
         Put(f, Filled(f, d)), Advance(f, rec, "write"), UNCHANGED <<pos, overlap>>
  PROVE  TransferInv'
<1>1. IOTypes /\ Progress(f) /\ Active(f) /\ call[f].byte # 0
  <2>1. Active(f)
    BY SMT DEF Active
  <2> QED BY <2>1 DEF TransferInv, Progress
<1>2. OnlyMoves(f, "write") /\ Advanced(f, rec)
  BY <1>1, AdvanceFacts
<1>3. \A g \in File : Progress(g)'
  <2>1. \A g \in File : Progress(g)
    BY DEF TransferInv
  <2>2. "write" \in {"read", "write"}
    OBVIOUS
  <2> QED BY <1>1, <2>1, <2>2, AdvanceProgress
<1>4. IOTypes'
  <2>1. DOMAIN sectors' = SectorIdx /\ DOMAIN content' = 0..(Length - 1)
    BY <1>1 DEF IOTypes, Put
  <2> QED BY <1>1, <1>2, <2>1 DEF IOTypes, OnlyMoves
<1>5. ASSUME ~overlap' PROVE Alone' /\ BytesLand' /\ \A g \in File : Undisturbed(g)'
  <2>1. ~overlap /\ Alone /\ BytesLand /\ d = sectors[sector_idx(f)]
    BY <1>5 DEF TransferInv
  <2>2. Alone' /\ \A g \in File : g # f => Undisturbed(g)'
    BY <1>1, <1>2, <2>1, AloneSame
  <2>3. BytesLand'
    BY <1>1, <2>1, PutLands
  <2>4. Undisturbed(f)'
    <3>1. iopc'[f] # "bounce" /\ call'[f].byte # 0
      BY <1>1, <1>2, SMT DEF OnlyMoves, Advanced
    <3> QED BY <3>1 DEF Undisturbed
  <2> QED BY <2>2, <2>3, <2>4
<1> QED BY <1>3, <1>4, <1>5 DEF TransferInv

\* inode_write_at() overwrites a whole sector.
LEMMA WriteFullStep ==
  ASSUME TransferInv, NEW f \in File, write_full(f)
  PROVE  TransferInv'
<1>1. /\ iopc[f] \in {"write", "bounce"} /\ More(f) /\ Advance(f, call[f], "write")
      /\ Put(f, Filled(f, sectors[sector_idx(f)])) /\ UNCHANGED <<pos, overlap>>
  BY DEF write_full, fields
<1>2. DOMAIN call[f] = DOMAIN NoTransfer
  BY DEF TransferInv, Progress
<1> QED BY <1>1, <1>2, WriteStep

\* inode_write_at() writes back a sector it has changed a part of.
LEMMA WritePartStep ==
  ASSUME TransferInv, NEW f \in File, write_part(f)
  PROVE  TransferInv'
<1> DEFINE rec == [call[f] EXCEPT !.bounce = <<>>]
<1>1. /\ iopc[f] = "bounce" /\ Advance(f, rec, "write")
      /\ Put(f, Filled(f, call[f].bounce)) /\ UNCHANGED <<pos, overlap>>
  BY DEF write_part, fields
<1>2. DOMAIN call[f] = DOMAIN NoTransfer /\ More(f)
  BY <1>1 DEF TransferInv, Progress
<1>3. /\ DOMAIN rec = DOMAIN NoTransfer /\ rec.byte = call[f].byte /\ rec.ask = call[f].ask
      /\ rec.size = call[f].size /\ rec.offset = call[f].offset /\ rec.done = call[f].done
  BY <1>2, SMT DEF NoTransfer
<1>4. ~overlap => call[f].bounce = sectors[sector_idx(f)]
  BY <1>1 DEF TransferInv, Undisturbed
<1>5. iopc[f] \in {"write", "bounce"}
  BY <1>1
<1> HIDE DEF rec
<1> QED BY <1>1, <1>2, <1>3, <1>4, <1>5, WriteStep

\* A sector is read into the bounce buffer.
LEMMA WriteReadStep ==
  ASSUME TransferInv, NEW f \in File, write_read(f)
  PROVE  TransferInv'
<1>1. /\ iopc[f] = "write" /\ More(f) /\ UNCHANGED <<sectors, content, pos, overlap>>
      /\ call' = [call EXCEPT ![f].bounce = sectors[sector_idx(f)]]
      /\ iopc' = [iopc EXCEPT ![f] = "bounce"]
  BY DEF write_read, fields
<1>2. IOTypes /\ Progress(f) /\ Active(f) /\ call[f].byte # 0
  <2>1. Active(f)
    BY <1>1, SMT DEF Active
  <2> QED BY <1>1, <2>1 DEF TransferInv, Progress
<1>3. OnlyMoves(f, "bounce")
  BY <1>1, <1>2 DEF OnlyMoves, IOTypes
<1>4. /\ DOMAIN call'[f] = DOMAIN NoTransfer /\ call'[f].byte = call[f].byte
      /\ call'[f].ask = call[f].ask /\ call'[f].size = call[f].size
      /\ call'[f].offset = call[f].offset /\ call'[f].done = call[f].done
      /\ call'[f].bounce = sectors[sector_idx(f)]
  <2>1. PICK x : x = sectors[sector_idx(f)]
    OBVIOUS
  <2>2. PICK r : r = call[f]
    OBVIOUS
  <2>3. call'[f] = [r EXCEPT !.bounce = x]
    BY <1>1, <1>2, <2>1, <2>2 DEF IOTypes
  <2>4. DOMAIN r = {"byte", "ask", "size", "offset", "done", "buffer", "bounce", "denied"}
    BY <1>2, <2>2, SMT DEF Progress, NoTransfer
  <2>5. PICK c : c = [r EXCEPT !.bounce = x]
    OBVIOUS
  <2>6. /\ DOMAIN c = DOMAIN r /\ c.byte = r.byte /\ c.ask = r.ask /\ c.size = r.size
        /\ c.offset = r.offset /\ c.done = r.done /\ c.bounce = x
    BY <2>4, <2>5, SMT
  <2> QED BY <1>2, <2>1, <2>2, <2>3, <2>5, <2>6 DEF Progress
<1>5. IOTypes'
  BY <1>1, <1>2, <1>3 DEF IOTypes, OnlyMoves
<1>6. \A g \in File : Progress(g)'
  <2>1. ASSUME NEW g \in File, g # f PROVE Progress(g)'
    <3>1. Progress(g)
      BY DEF TransferInv
    <3> QED BY <1>1, <1>3, <2>1, <3>1, ProgressSame DEF OnlyMoves
  <2>2. Progress(f)'
    <3>1. More(f)' /\ iopc'[f] # "return" /\ pos'[f] = pos[f]
      BY <1>1, <1>3, <1>4, SMT DEF More, chunk_size, sector_left, sector_ofs, OnlyMoves
    <3> QED BY <1>2, <1>4, <3>1 DEF Progress
  <2> QED BY <2>1, <2>2
<1>7. ASSUME ~overlap' PROVE Alone' /\ BytesLand' /\ \A g \in File : Undisturbed(g)'
  <2>1. ~overlap /\ Alone /\ BytesLand
    BY <1>1, <1>7 DEF TransferInv
  <2>2. Alone' /\ \A g \in File : g # f => Undisturbed(g)'
    BY <1>2, <1>3, <2>1, AloneSame
  <2>3. BytesLand'
    BY <1>1, <2>1 DEF BytesLand
  <2>4. Undisturbed(f)'
    BY <1>1, <1>2, <1>4 DEF Undisturbed, sector_idx
  <2> QED BY <2>2, <2>3, <2>4
<1> QED BY <1>5, <1>6, <1>7 DEF TransferInv

\* The transfer is over.
LEMMA EndStep ==
  ASSUME TransferInv, NEW f \in File, chunks_end(f)
  PROVE  TransferInv'
<1>1. /\ iopc[f] \in {"read", "write"} /\ ~More(f)
      /\ UNCHANGED <<sectors, content, pos, overlap, call>>
      /\ iopc' = [iopc EXCEPT ![f] = "return"]
  BY DEF chunks_end, fields
<1>2. IOTypes /\ Progress(f) /\ Active(f)
  <2>1. Active(f)
    BY <1>1, SMT DEF Active
  <2> QED BY <2>1 DEF TransferInv
<1>3. OnlyMoves(f, "return")
  BY <1>1, <1>2 DEF OnlyMoves, IOTypes
<1>4. iopc'[f] = "return" /\ iopc'[f] \notin {"write", "bounce"} /\ iopc'[f] # "bounce"
  BY <1>3, SMT DEF OnlyMoves
<1>5. IOTypes'
  BY <1>1, <1>2, <1>3 DEF IOTypes, OnlyMoves
<1>6. \A g \in File : Progress(g)'
  <2>1. ASSUME NEW g \in File, g # f PROVE Progress(g)'
    <3>1. Progress(g)
      BY DEF TransferInv
    <3> QED BY <1>1, <1>3, <2>1, <3>1, ProgressSame DEF OnlyMoves
  <2>2. Progress(f)'
    <3>1. ~More(f)'
      BY <1>1 DEF More, chunk_size, sector_left, sector_ofs
    <3> QED BY <1>1, <1>2, <1>4, <3>1 DEF Progress
  <2> QED BY <2>1, <2>2
<1>7. ASSUME ~overlap' PROVE Alone' /\ BytesLand' /\ \A g \in File : Undisturbed(g)'
  <2>1. ~overlap /\ Alone /\ BytesLand /\ Undisturbed(f)
    BY <1>1, <1>7 DEF TransferInv
  <2>2. Alone' /\ \A g \in File : g # f => Undisturbed(g)'
    BY <1>2, <1>3, <2>1, AloneSame
  <2>3. BytesLand'
    BY <1>1, <2>1 DEF BytesLand
  <2>4. Undisturbed(f)'
    BY <1>1, <1>2, <1>4, <2>1 DEF Undisturbed
  <2> QED BY <2>2, <2>3, <2>4
<1> QED BY <1>5, <1>6, <1>7 DEF TransferInv

\* file_read() and file_write() return.
LEMMA ReturnStep ==
  ASSUME TransferInv, NEW f \in File, transfer_return(f)
  PROVE  TransferInv'
<1>1. /\ iopc[f] = "return" /\ UNCHANGED <<sectors, content, overlap>>
      /\ pos' = [pos EXCEPT ![f] = @ + call[f].done]
      /\ iopc' = [iopc EXCEPT ![f] = "idle"]
      /\ call' = [call EXCEPT ![f] = NoTransfer]
  BY DEF transfer_return
<1>2. IOTypes /\ Progress(f) /\ Active(f)
  <2>1. Active(f)
    BY <1>1, SMT DEF Active
  <2> QED BY <2>1 DEF TransferInv
<1>3. OnlyMoves(f, "idle") /\ call'[f] = NoTransfer
  BY <1>1, <1>2 DEF OnlyMoves, IOTypes
<1>4. pos' \in [File -> Nat] /\ \A g \in File : g # f => pos'[g] = pos[g]
  <2>1. pos[f] + call[f].done \in Nat
    <3>1. PICK a \in Nat, b \in Nat : a = pos[f] /\ b = call[f].done
      BY <1>2 DEF IOTypes, Progress
    <3>2. a + b \in Nat
      BY SMT
    <3> QED BY <3>1, <3>2
  <2> QED BY <1>1, <1>2, <2>1 DEF IOTypes
<1>5. IOTypes'
  BY <1>1, <1>2, <1>3, <1>4 DEF IOTypes, OnlyMoves
<1>6. ~Active(f)' /\ iopc'[f] \notin {"write", "bounce", "return"}
  BY <1>3, SMT DEF Active, OnlyMoves
<1>7. \A g \in File : Progress(g)'
  <2>1. ASSUME NEW g \in File, g # f PROVE Progress(g)'
    <3>1. Progress(g)
      BY DEF TransferInv
    <3> QED BY <1>3, <1>4, <2>1, <3>1, ProgressSame DEF OnlyMoves
  <2>2. Progress(f)'
    <3>1. /\ NoTransfer.ask \in Nat /\ NoTransfer.size \in Nat
          /\ NoTransfer.offset \in Nat /\ NoTransfer.done \in Nat
      BY SMT DEF NoTransfer
    <3> QED BY <1>3, <1>6, <3>1 DEF Progress
  <2> QED BY <2>1, <2>2
<1>8. ASSUME ~overlap' PROVE Alone' /\ BytesLand' /\ \A g \in File : Undisturbed(g)'
  <2>1. ~overlap /\ Alone /\ BytesLand
    BY <1>1, <1>8 DEF TransferInv
  <2>2. Alone' /\ \A g \in File : g # f => Undisturbed(g)'
    BY <1>2, <1>3, <2>1, AloneSame
  <2>3. BytesLand'
    BY <1>1, <2>1 DEF BytesLand
  <2>4. Undisturbed(f)'
    BY <1>6 DEF Undisturbed
  <2> QED BY <2>2, <2>3, <2>4
<1> QED BY <1>5, <1>7, <1>8 DEF TransferInv

\* A call on a file that transfers nothing.
LEMMA IdleStep ==
  ASSUME TransferInv, NEW f \in File, NEW l \in {"idle", "closed"}, ~Active(f),
         OnlyMoves(f, l), pos' \in [File -> Nat], \A g \in File : g # f => pos'[g] = pos[g],
         UNCHANGED <<sectors, content, call, overlap>>
  PROVE  TransferInv'
<1>1. IOTypes /\ Progress(f)
  BY DEF TransferInv
<1>2. OnlyMoves(f, l) /\ \A g \in File : g # f => pos'[g] = pos[g]
  OBVIOUS
<1>3. IOTypes'
  BY <1>1, <1>2 DEF IOTypes, OnlyMoves
<1>4. ~Active(f)' /\ iopc'[f] \notin {"write", "bounce", "return"}
  BY <1>2, SMT DEF Active, OnlyMoves
<1>5. \A g \in File : Progress(g)'
  <2>1. ASSUME NEW g \in File, g # f PROVE Progress(g)'
    <3>1. Progress(g)
      BY DEF TransferInv
    <3> QED BY <1>2, <2>1, <3>1, ProgressSame DEF OnlyMoves
  <2>2. Progress(f)'
    BY <1>1, <1>4 DEF Progress
  <2> QED BY <2>1, <2>2
<1>6. ASSUME ~overlap' PROVE Alone' /\ BytesLand' /\ \A g \in File : Undisturbed(g)'
  <2>1. ~overlap /\ Alone /\ BytesLand
    BY <1>6 DEF TransferInv
  <2>2. ASSUME NEW g \in File, g # f PROVE (Active(g)' => Active(g)) /\ Undisturbed(g)'
    <3>1. Undisturbed(g) /\ iopc'[g] = iopc[g] /\ pos'[g] = pos[g]
      BY <1>2, <2>1, <2>2 DEF TransferInv, OnlyMoves
    <3> QED BY <3>1 DEF Undisturbed, Active, sector_idx
  <2>3. Alone' /\ BytesLand'
    BY <1>4, <2>1, <2>2 DEF Alone, BytesLand
  <2>4. Undisturbed(f)'
    BY <1>4 DEF Undisturbed
  <2> QED BY <2>2, <2>3, <2>4
<1> QED BY <1>3, <1>5, <1>6 DEF TransferInv

\* file_seek(), the denials of writes, close() and open() change no transfer.
LEMMA OtherStep ==
  ASSUME TransferInv, NEW f \in File,
         \/ \E p \in Seek : file_seek(f, p)
         \/ file_deny_write(f) \/ file_allow_write(f) \/ close(f) \/ open(f)
  PROVE  TransferInv'
<1>1. IOTypes /\ DOMAIN iopc = File /\ DOMAIN call = File /\ pos \in [File -> Nat]
  BY DEF TransferInv, IOTypes
<1>2. ~Active(f) /\ UNCHANGED <<sectors, content, call, overlap>>
  BY DEF file_seek, file_deny_write, file_allow_write, close, open, Active
<1>3. CASE \E p \in Seek : file_seek(f, p)
  <2>1. PICK p \in Seek : file_seek(f, p)
    BY <1>3
  <2>2. p \in Nat /\ iopc[f] = "idle" /\ iopc' = iopc /\ pos' = [pos EXCEPT ![f] = p]
    BY <2>1, FileIOAssumption DEF file_seek
  <2>3. OnlyMoves(f, "idle")
    BY <1>1, <1>2, <2>2 DEF OnlyMoves
  <2>4. pos' \in [File -> Nat] /\ \A g \in File : g # f => pos'[g] = pos[g]
    BY <1>1, <2>2
  <2> QED BY <1>2, <2>3, <2>4, IdleStep
<1>4. CASE file_deny_write(f) \/ file_allow_write(f)
  <2>1. iopc[f] = "idle" /\ iopc' = iopc /\ pos' = pos
    BY <1>4 DEF file_deny_write, file_allow_write
  <2>2. OnlyMoves(f, "idle")
    BY <1>1, <1>2, <2>1 DEF OnlyMoves
  <2> QED BY <1>1, <1>2, <2>1, <2>2, IdleStep
<1>5. CASE close(f)
  <2>1. iopc' = [iopc EXCEPT ![f] = "closed"] /\ pos' = pos
    BY <1>5 DEF close
  <2>2. OnlyMoves(f, "closed")
    BY <1>1, <1>2, <2>1 DEF OnlyMoves
  <2> QED BY <1>1, <1>2, <2>1, <2>2, IdleStep
<1>6. CASE open(f)
  <2>1. iopc' = [iopc EXCEPT ![f] = "idle"] /\ pos' = [pos EXCEPT ![f] = 0] /\ 0 \in Nat
    BY <1>6 DEF open
  <2>2. OnlyMoves(f, "idle")
    BY <1>1, <1>2, <2>1 DEF OnlyMoves
  <2>3. pos' \in [File -> Nat] /\ \A g \in File : g # f => pos'[g] = pos[g]
    BY <1>1, <2>1
  <2> QED BY <1>2, <2>2, <2>3, IdleStep
<1> QED BY <1>3, <1>4, <1>5, <1>6

\* Nothing changes.
LEMMA TransferStutter ==
  ASSUME TransferInv, UNCHANGED iovars
  PROVE  TransferInv'
<1>1. UNCHANGED <<sectors, content, pos, iopc, call, overlap>>
  BY DEF iovars, fields
<1>2. \A f \in File : Progress(f)'
  BY <1>1, ProgressSame DEF TransferInv
<1>3. IOTypes' /\ (Alone' <=> Alone) /\ (BytesLand' <=> BytesLand)
  BY <1>1 DEF TransferInv, IOTypes, Alone, Active, BytesLand
<1>4. ASSUME NEW f \in File, Undisturbed(f) PROVE Undisturbed(f)'
  BY <1>1, <1>4 DEF Undisturbed, Active, sector_idx
<1> QED BY <1>1, <1>2, <1>3, <1>4 DEF TransferInv

\* Initially the file is all zeros and nothing is transferred.
LEMMA TransferInvInit ==
  ASSUME IOInit
  PROVE  TransferInv
<1>1. 0 \in Nat
  OBVIOUS
<1>2. IOTypes
  BY <1>1 DEF IOTypes, IOInit
<1>3. ASSUME NEW f \in File PROVE ~Active(f) /\ Progress(f) /\ Undisturbed(f)
  <2>1. iopc[f] = "idle" /\ call[f] = NoTransfer
    BY DEF IOInit
  <2>2. ~Active(f) /\ iopc[f] \notin {"write", "bounce", "return"}
    BY <2>1, SMT DEF Active
  <2>3. /\ NoTransfer.ask \in Nat /\ NoTransfer.size \in Nat
        /\ NoTransfer.offset \in Nat /\ NoTransfer.done \in Nat
    BY SMT DEF NoTransfer
  <2> QED BY <2>1, <2>2, <2>3 DEF Progress, Undisturbed
<1>4. BytesLand
  <2>1. ASSUME NEW o \in 0..(Length - 1) PROVE sectors[o \div SS][o % SS] = content[o]
    <3>1. o \in Nat /\ o < Length
      BY FileIOAssumption, SMT
    <3>2. o \div SS \in SectorIdx /\ o % SS \in InSector
      BY <3>1, InFile, Split DEF InSector
    <3> QED BY <3>2 DEF IOInit
  <2> QED BY <2>1 DEF BytesLand
<1> QED BY <1>2, <1>3, <1>4 DEF TransferInv, Alone

\* Every step keeps the invariant.
LEMMA TransferInvStep ==
  ASSUME TransferInv, [IONext]_iovars
  PROVE  TransferInv'
<1>1. CASE UNCHANGED iovars
  BY <1>1, TransferStutter
<1>2. CASE IONext
  <2>1. PICK f \in File :
          \/ \E n \in Size : file_read(f, n) \/ \E b \in Byte : file_write(f, b, n)
          \/ read_chunk(f) \/ write_full(f) \/ write_read(f) \/ write_part(f)
          \/ chunks_end(f) \/ transfer_return(f)
          \/ \E p \in Seek : file_seek(f, p)
          \/ file_deny_write(f) \/ file_allow_write(f) \/ close(f)
          \/ open(f)
    BY <1>2 DEF IONext
  <2>2. ASSUME NEW n \in Size, file_read(f, n) PROVE TransferInv'
    <3>1. n \in Nat /\ "read" \in {"read", "write", "return"} /\ "read" # "write"
      BY FileIOAssumption, SMT
    <3>2. Begin(f, 0, n, "read")
      BY <2>2 DEF file_read
    <3> QED BY <3>1, <3>2, BeginStep
  <2>3. ASSUME NEW n \in Size, NEW b \in Byte, file_write(f, b, n) PROVE TransferInv'
    <3>1. n \in Nat /\ b # 0
      BY FileIOAssumption
    <3>2. PICK l \in {"read", "write", "return"} : Begin(f, b, n, l)
      BY <2>3 DEF file_write
    <3> QED BY <3>1, <3>2, BeginStep
  <2> QED BY <2>1, <2>2, <2>3, ReadStep, WriteFullStep, WriteReadStep, WritePartStep,
             EndStep, ReturnStep, OtherStep
<1> QED BY <1>1, <1>2

\* The count that is returned is what was asked for or what the file has left.
LEMMA TransferInvImplies ==
  ASSUME TransferInv
  PROVE  TransfersExact
<1>1. CountRight
  <2>1. ASSUME NEW f \in File, iopc[f] = "return", ~call[f].denied
        PROVE  call[f].done = Min2(call[f].ask, IF pos[f] > Length THEN 0 ELSE Length - pos[f])
    <3>1. Progress(f) /\ Active(f) /\ ~More(f)
      <4>1. Active(f)
        BY <2>1, SMT DEF Active
      <4> QED BY <2>1, <4>1 DEF TransferInv, Progress
    <3>2. PICK z \in Nat, x \in Nat, d \in Nat, a \in Nat, p \in Nat :
            /\ z = call[f].size /\ x = call[f].offset /\ d = call[f].done
            /\ a = call[f].ask /\ p = pos[f]
      BY <3>1 DEF Progress, TransferInv, IOTypes
    <3>3. x = p + d /\ d + z = a /\ (d > 0 => x <= Length)
      BY <3>1, <3>2 DEF Progress
    <3>4. z = 0 \/ x >= Length
      BY <3>1, <3>2, ChunkFacts
    <3>5. Length \in Nat
      BY FileIOAssumption
    <3>6. d = Min2(a, IF p > Length THEN 0 ELSE Length - p)
      BY <3>3, <3>4, <3>5, SMT DEF Min2
    <3> QED BY <3>2, <3>6
  <2> QED BY <2>1 DEF CountRight
<1>2. WriteLands
  BY DEF TransferInv, WriteLands
<1>3. ReadExact
  <2>1. ASSUME NEW f \in File, iopc[f] = "return", call[f].byte = 0, ~overlap
        PROVE  call[f].buffer = [i \in 1..call[f].done |-> content[pos[f] + i - 1]]
    <3>1. Active(f)
      BY <2>1, SMT DEF Active
    <3> QED BY <2>1, <3>1 DEF TransferInv, Undisturbed
  <2> QED BY <2>1 DEF ReadExact
<1> QED BY <1>1, <1>2, <1>3 DEF TransfersExact

INSTANCE FiniteSetTheorems

\* A file begins or ends to deny writes.
LEMMA DenyOne ==
  ASSUME DenyInv, NEW f \in File, NEW v \in BOOLEAN,
         deny_write' = [deny_write EXCEPT ![f] = v],
         deny_write_cnt' = IF deny_write[f] THEN (IF v THEN deny_write_cnt ELSE deny_write_cnt - 1)
                           ELSE (IF v THEN deny_write_cnt + 1 ELSE deny_write_cnt)
  PROVE  DenyInv'
<1> DEFINE S == {g \in File : deny_write[g]}
           T == {g \in File : deny_write'[g]}
<1>1. deny_write' \in [File -> BOOLEAN] /\ deny_write_cnt = Cardinality(S)
  BY DEF DenyInv, DenyCounts
<1>2. IsFiniteSet(S)
  BY FileIOAssumption, FS_Subset
<1>3. \A g \in File : deny_write'[g] <=> IF g = f THEN v ELSE deny_write[g]
  BY DEF DenyInv
<1>4. T = IF v THEN S \cup {f} ELSE S \ {f}
  BY <1>3
<1>5. f \in S <=> deny_write[f]
  OBVIOUS
<1> HIDE DEF S, T
<1>6. Cardinality(S) \in Nat
  BY <1>2, FS_CardinalityType
<1>7. CASE v
  <2>1. Cardinality(T) = IF f \in S THEN Cardinality(S) ELSE Cardinality(S) + 1
    BY <1>2, <1>4, <1>7, FS_AddElement
  <2>2. deny_write_cnt' = Cardinality(T)
    BY <1>1, <1>5, <1>7, <2>1
  <2> QED BY <1>1, <2>2 DEF DenyInv, DenyCounts, T
<1>8. CASE ~v
  <2>1. Cardinality(T) = IF f \in S THEN Cardinality(S) - 1 ELSE Cardinality(S)
    BY <1>2, <1>4, <1>8, FS_RemoveElement
  <2>2. deny_write_cnt' = Cardinality(T)
    BY <1>1, <1>5, <1>8, <2>1
  <2> QED BY <1>1, <2>2 DEF DenyInv, DenyCounts, T
<1> QED BY <1>7, <1>8

\* Every step keeps the count of the denials.
LEMMA DenyInvStep ==
  ASSUME DenyInv, [IONext]_iovars
  PROVE  DenyInv'
<1>1. CASE UNCHANGED <<deny_write, deny_write_cnt>>
  BY <1>1 DEF DenyInv, DenyCounts
<1>2. ASSUME NEW f \in File, file_deny_write(f) PROVE DenyInv'
  BY <1>2, DenyOne DEF file_deny_write
<1>3. ASSUME NEW f \in File, file_allow_write(f) \/ close(f) PROVE DenyInv'
  BY <1>3, DenyOne DEF file_allow_write, close, Allowed
<1> QED BY <1>1, <1>2, <1>3 DEF IONext, iovars, fields, file_read, file_write, Begin, read_chunk,
           write_full, write_read, write_part, chunks_end, transfer_return, file_seek, open

\* At first nobody denies writes.
LEMMA DenyInvInit ==
  ASSUME IOInit
  PROVE  DenyInv
<1>1. deny_write \in [File -> BOOLEAN] /\ {f \in File : deny_write[f]} = {}
  BY DEF IOInit
<1> QED BY <1>1, FS_EmptySet DEF IOInit, DenyInv, DenyCounts

\* inode_read_at() and inode_write_at(): transfers that do not overlap move the
\* bytes they were asked to move, to where they belong, and return their count.
THEOREM TransfersAlwaysExact == IOSpec => []TransfersExact
<1>1. TransferInv /\ [IONext]_iovars => TransferInv'
  BY TransferInvStep
<1> QED BY <1>1, TransferInvInit, TransferInvImplies, PTL DEF IOSpec

\* file_deny_write(), file_allow_write() and close(): the inode always counts the
\* open files that deny writes, so writes are denied while one of them does.
THEOREM DenyAlwaysCounts == IOSpec => []DenyCounts
<1>1. DenyInv /\ [IONext]_iovars => DenyInv'
  BY DenyInvStep
<1>2. DenyInv => DenyCounts
  BY DEF DenyInv
<1> QED BY <1>1, <1>2, DenyInvInit, PTL DEF IOSpec
=============================================================================
