------------------------------- MODULE FileIO -------------------------------
(***************************************************************************)
(* Reading and writing one file: file.c, and inode_read_at() and           *)
(* inode_write_at() of inode.c.                                            *)
(*                                                                         *)
(* A transfer goes sector by sector; each disk_read() and disk_write() is  *)
(* a step, and transfers through different open files interleave, for the  *)
(* file system takes no lock.  Two variables are not in the code:          *)
(* `content' is the file as the chunks written so far define it, and       *)
(* `overlap' tells the runs in which transfers never overlapped.           *)
(***************************************************************************)
EXTENDS Integers, Sequences, FiniteSets

CONSTANTS
  File,       \* the struct files open on the inode
  Length,     \* inode_length(), in bytes
  SS,         \* DISK_SECTOR_SIZE
  Byte,       \* bytes a buffer is filled with; 0 is what a new file holds
  Size,       \* sizes of transfers
  Seek        \* positions for file_seek()

ASSUME FileIOAssumption ==
  /\ IsFiniteSet(File) /\ Length \in Nat /\ SS \in Nat \ {0}
  /\ Size \subseteq Nat /\ Seek \subseteq Nat /\ 0 \notin Byte

VARIABLES
  sectors,                            \* sector -> its SS bytes
  content,
  pos, deny_write,                 \* struct file
  deny_write_cnt, open_cnt,        \* struct inode
  iopc, call,                        \* the transfer through each file
  overlap                          \* a transfer began during another one

fields == <<pos, deny_write, deny_write_cnt, open_cnt>>
iovars   == <<sectors, content, fields, iopc, call, overlap>>

Min2(a, b) == IF a < b THEN a ELSE b

bytes_to_sectors(n) == (n + SS - 1) \div SS
SectorIdx           == 0..(bytes_to_sectors(Length) - 1)
InSector            == 0..(SS - 1)

NoTransfer == [byte |-> 0, ask |-> 0, size |-> 0, offset |-> 0, done |-> 0,
           buffer |-> <<>>, bounce |-> <<>>, denied |-> FALSE]

IOInit ==
  /\ sectors = [s \in SectorIdx |-> [i \in InSector |-> 0]]
  /\ content = [o \in 0..(Length - 1) |-> 0]
  /\ pos = [f \in File |-> 0]
  /\ deny_write = [f \in File |-> FALSE]
  /\ deny_write_cnt = 0
  /\ open_cnt = Cardinality(File)
  /\ iopc = [f \in File |-> "idle"]
  /\ call = [f \in File |-> NoTransfer]
  /\ overlap = FALSE
-----------------------------------------------------------------------------
(***************************************************************************)
(* The next chunk of a transfer.                                           *)
(***************************************************************************)
sector_idx(f)  == call[f].offset \div SS
sector_ofs(f)  == call[f].offset % SS
sector_left(f) == SS - sector_ofs(f)

chunk_size(f) == Min2(call[f].size, Min2(Length - call[f].offset, sector_left(f)))
More(f)       == call[f].size > 0 /\ chunk_size(f) > 0
Chunk(f)      == sector_ofs(f)..(sector_ofs(f) + chunk_size(f) - 1)

Advance(f, rec, l) ==
  /\ call' = [call EXCEPT ![f] = [rec EXCEPT !.size = @ - chunk_size(f),
                                             !.offset = @ + chunk_size(f),
                                             !.done = @ + chunk_size(f)]]
  /\ iopc' = [iopc EXCEPT ![f] = l]

Begin(f, b, n, l) ==
  /\ iopc[f] = "idle"
  /\ iopc' = [iopc EXCEPT ![f] = l]
  /\ call' = [call EXCEPT ![f] = [NoTransfer EXCEPT !.byte = b, !.ask = n, !.size = n, !.offset = pos[f],
                                               !.denied = (l = "return")]]
  /\ overlap' = (overlap \/ \E g \in File : iopc[g] \notin {"idle", "closed"})
  /\ UNCHANGED <<sectors, content, fields>>

file_read(f, n) == Begin(f, 0, n, "read")

\* inode_read_at(): a whole sector, or part of it through the bounce buffer.
read_chunk(f) ==
  LET d == sectors[sector_idx(f)]
  IN /\ iopc[f] = "read" /\ More(f)
     /\ Advance(f, [call[f] EXCEPT !.buffer = @ \o [i \in 1..chunk_size(f) |-> d[sector_ofs(f) + i - 1]]], "read")
     /\ UNCHANGED <<sectors, content, fields, overlap>>

\* inode_write_at() writes nothing while writes are denied.
file_write(f, b, n) == Begin(f, b, n, IF deny_write_cnt # 0 THEN "return" ELSE "write")

Filled(f, d) == [i \in InSector |-> IF i \in Chunk(f) THEN call[f].byte ELSE d[i]]

Put(f, d) ==
  /\ sectors' = [sectors EXCEPT ![sector_idx(f)] = d]
  /\ content' = [o \in DOMAIN content |->
                   IF o \div SS = sector_idx(f) /\ o % SS \in Chunk(f) THEN call[f].byte ELSE content[o]]

\* A whole sector is written directly.
write_full(f) ==
  /\ iopc[f] = "write" /\ More(f) /\ chunk_size(f) = SS
  /\ Put(f, Filled(f, sectors[sector_idx(f)]))
  /\ Advance(f, call[f], "write")
  /\ UNCHANGED <<fields, overlap>>

\* A part is read into the bounce buffer first: a chunk shorter than the
\* sector leaves bytes before or after it.
write_read(f) ==
  /\ iopc[f] = "write" /\ More(f) /\ chunk_size(f) < SS
  /\ call' = [call EXCEPT ![f].bounce = sectors[sector_idx(f)]]
  /\ iopc' = [iopc EXCEPT ![f] = "bounce"]
  /\ UNCHANGED <<sectors, content, fields, overlap>>

\* Fault: the chunk is written at the start of the sector.
write_part_start(f) ==
  /\ iopc[f] = "bounce"
  /\ Put(f, [i \in InSector |-> IF i < chunk_size(f) THEN call[f].byte ELSE call[f].bounce[i]])
  /\ Advance(f, [call[f] EXCEPT !.bounce = <<>>], "write")
  /\ UNCHANGED <<fields, overlap>>

write_part(f) ==
  /\ iopc[f] = "bounce"
  /\ Put(f, Filled(f, call[f].bounce))
  /\ Advance(f, [call[f] EXCEPT !.bounce = <<>>], "write")
  /\ UNCHANGED <<fields, overlap>>

\* The transfer is over: everything is done, or the file ends.
chunks_end(f) ==
  /\ iopc[f] \in {"read", "write"} /\ ~More(f)
  /\ iopc' = [iopc EXCEPT ![f] = "return"]
  /\ UNCHANGED <<sectors, content, fields, overlap, call>>

\* file_read() and file_write() advance the position.
transfer_return(f) ==
  /\ iopc[f] = "return"
  /\ pos' = [pos EXCEPT ![f] = @ + call[f].done]
  /\ iopc' = [iopc EXCEPT ![f] = "idle"]
  /\ call' = [call EXCEPT ![f] = NoTransfer]
  /\ UNCHANGED <<sectors, content, deny_write, deny_write_cnt, open_cnt, overlap>>
-----------------------------------------------------------------------------
file_seek(f, p) ==
  /\ iopc[f] = "idle"
  /\ pos' = [pos EXCEPT ![f] = p]
  /\ UNCHANGED <<sectors, content, deny_write, deny_write_cnt, open_cnt, iopc, call, overlap>>

\* Fault: a second call through the same file counts again.
file_deny_write_again(f) ==
  /\ iopc[f] = "idle"
  /\ deny_write' = [deny_write EXCEPT ![f] = TRUE]
  /\ deny_write_cnt' = deny_write_cnt + 1
  /\ UNCHANGED <<sectors, content, pos, open_cnt, iopc, call, overlap>>

file_deny_write(f) ==
  /\ iopc[f] = "idle"
  /\ deny_write' = [deny_write EXCEPT ![f] = TRUE]
  /\ deny_write_cnt' = IF deny_write[f] THEN deny_write_cnt ELSE deny_write_cnt + 1
  /\ UNCHANGED <<sectors, content, pos, open_cnt, iopc, call, overlap>>

\* What file_allow_write() does to the counter.
Allowed(f) == IF deny_write[f] THEN deny_write_cnt - 1 ELSE deny_write_cnt

file_allow_write(f) ==
  /\ iopc[f] = "idle"
  /\ deny_write' = [deny_write EXCEPT ![f] = FALSE]
  /\ deny_write_cnt' = Allowed(f)
  /\ UNCHANGED <<sectors, content, pos, open_cnt, iopc, call, overlap>>

\* close(): the file's denial ends with it.
close(f) ==
  /\ iopc[f] = "idle"
  /\ deny_write' = [deny_write EXCEPT ![f] = FALSE]
  /\ deny_write_cnt' = Allowed(f)
  /\ open_cnt' = open_cnt - 1
  /\ iopc' = [iopc EXCEPT ![f] = "closed"]
  /\ UNCHANGED <<sectors, content, pos, call, overlap>>

\* open() and file_reopen(): a new struct file, at the start.
open(f) ==
  /\ iopc[f] = "closed"
  /\ pos' = [pos EXCEPT ![f] = 0]
  /\ open_cnt' = open_cnt + 1
  /\ iopc' = [iopc EXCEPT ![f] = "idle"]
  /\ UNCHANGED <<sectors, content, deny_write, deny_write_cnt, call, overlap>>

IONext ==
  \E f \in File :
    \/ \E n \in Size : file_read(f, n) \/ \E b \in Byte : file_write(f, b, n)
    \/ read_chunk(f) \/ write_full(f) \/ write_read(f) \/ write_part(f)
    \/ chunks_end(f) \/ transfer_return(f)
    \/ \E p \in Seek : file_seek(f, p)
    \/ file_deny_write(f) \/ file_allow_write(f) \/ close(f)
    \/ open(f)

IOSpec == IOInit /\ [][IONext]_iovars
-----------------------------------------------------------------------------
\* inode_write_at() "Returns the number of bytes actually written": each byte on
\* the sectors is the one the last chunk that covers it wrote.
BytesLand == \A o \in 0..(Length - 1) : sectors[o \div SS][o % SS] = content[o]

\* As long as transfers come one after the other, through whichever file, a write
\* changes the bytes it was asked to write and no other byte of the sectors.
WriteLands == ~overlap => BytesLand

\* A transfer that was not denied returns the number of bytes asked for or left
\* in the file, whichever is less, and 0 for a position at or after the end.
CountRight ==
  \A f \in File :
    iopc[f] = "return" /\ ~call[f].denied =>
      LET left == IF pos[f] > Length THEN 0 ELSE Length - pos[f]
      IN call[f].done = Min2(call[f].ask, left)

\* As long as transfers come one after the other, the buffer of a read that ends
\* holds the bytes of the file at its position.
ReadExact ==
  \A f \in File :
    iopc[f] = "return" /\ call[f].byte = 0 /\ ~overlap =>
      call[f].buffer = [i \in 1..call[f].done |-> content[pos[f] + i - 1]]

\* Reads and writes that do not overlap: the bytes that are transferred, where
\* they land and the count that is returned are those that were asked for.
TransfersExact == WriteLands /\ CountRight /\ ReadExact

\* deny_write_cnt is the number of open files that deny writes.
DenyCounts == deny_write_cnt = Cardinality({f \in File : deny_write[f]})

\* pfs_reader.c: "The buffer should all contain the same character!!", when every
\* write fills the whole file with one character.
SameCharacter ==
  \A f \in File : iopc[f] = "return" =>
    \A i, j \in 1..Len(call[f].buffer) : call[f].buffer[i] = call[f].buffer[j]
=============================================================================
