--------------------------- MODULE ScatterWriter ---------------------------
(***************************************************************************)
(* One SSTable's trip through the LTC scatter writer and back through the  *)
(* random-access reader (src/ltc/stoc_file_client_impl.cpp).              *)
(*                                                                         *)
(* The table builder appends the classic layout to backing_mem_: data      *)
(* blocks (each followed by a trailer of Trailer bytes), then filter,      *)
(* meta-index and index blocks, each with its trailer, and the footer.     *)
(* Fsync() checks the size and calls Format(), which splits the data       *)
(* blocks into groups and RDMA-WRITEs each group to its own StoC;          *)
(* Finalize() waits for every group's StoCBlockHandle, rewrites the index  *)
(* so each entry points into its group's StoC segment, writes the metadata *)
(* blob [filter][meta-index][index][footer] over the old tail, stores it   *)
(* in the local table file and appends it to one more StoC.  A reader      *)
(* decodes the index from that blob and resolves a block either lazily     *)
(* (one RDMA READ per block) or from a prefetch buffer filled by ReadAll() *)
(* and indexed by (server_id, stoc_file_id).                               *)
(*                                                                         *)
(* A byte is a record.  Byte x of the original data region is Data(x + 1), *)
(* so a read returns the right bytes exactly when it returns the data     *)
(* identities of the block it asked for.  Every byte of a meta block holds *)
(* the block's decoded content, so a block is found by its handle and its *)
(* content read from its first byte.                                       *)
(***************************************************************************)
EXTENDS Naturals, Sequences, FiniteSets

SX == INSTANCE SequencesExt

CONSTANTS
  StoCs,       \* StoC server ids
  Scatter,     \* num_stocs_scatter_data_blocks
  MaxBlocks,   \* bound on num_data_blocks_
  BlockSizes,  \* sizes of a data block without its trailer
  Trailer,     \* kBlockTrailerSize
  MaxBase,     \* bound on bytes already in a StoC segment before the append
  FilterLen,   \* size of the filter block
  IndexLen,    \* size of the index block the builder wrote (BlockHandles)
  NewIndexLen, \* size of the rewritten index block (StoCBlockHandles)
  AllocSlack   \* allocated_size_ minus the table size, chosen by the caller

ASSUME /\ Scatter \in 1..Cardinality(StoCs)
       /\ MaxBlocks \in Nat \ {0} /\ Trailer \in Nat \ {0}
       /\ BlockSizes \subseteq Nat \ {0} /\ MaxBase \in Nat
       /\ {FilterLen, IndexLen, NewIndexLen} \subseteq Nat \ {0}
       /\ AllocSlack \in Nat

\* The meta-index block (one entry) and the footer (Footer::kEncodedLength)
\* are of fixed size.
MetaIndexLen == 1
FooterLen == 1

MaxBlockSize == CHOOSE m \in BlockSizes : \A b \in BlockSizes : b <= m
\* Room in one StoC segment: earlier bytes plus the whole data region.
Cap == MaxBase + MaxBlocks * (Trailer + MaxBlockSize)
Offsets == 0..Cap
\* backing_mem_: the largest table plus the caller's slack.
MemOffsets == 0..(MaxBlocks * (Trailer + MaxBlockSize) + FilterLen + MetaIndexLen
                  + IndexLen + 3 * Trailer + FooterLen + AllocSlack - 1)

Data(n) == [blk |-> "data", id |-> n]
NoByte == [blk |-> "none"]
TrailerByte == [blk |-> "trailer"]
NoRead == [blk |-> 0, bytes |-> <<>>]
\* A group's result_handle before its answer arrives.
NoHandle == [server |-> "none", off |-> 0, size |-> 0]

RECURSIVE SumTo(_, _)
\* Sum of f[1..k].
SumTo(f, k) == IF k = 0 THEN 0 ELSE f[k] + SumTo(f, k - 1)

VARIABLES
  nblocks,    \* num_data_blocks_ (set_num_data_blocks)
  bsize,      \* index block: size of each data block, without trailer
  mem,        \* backing_mem_: offset -> byte
  usedSize,   \* used_size_
  alloc,      \* allocated_size_
  appended,   \* the builder's Append calls so far
  groups,     \* nblocks_in_group_
  status,     \* status_: per group, the StoC, the WRITE and its result handle
  stoc,       \* per StoC: its segment, offset -> byte
  stocOff,    \* per StoC: append offset of its open segment
  filterStart,\* filter_block_start_offset computed by Finalize
  localFile,  \* <dbname>/<file_number>.ldb: the metadata blob Finalize wrote
  metaAt,     \* the StoC holding the metadata blob, or "none"
  metaStore,  \* the metadata blob as that StoC holds it (meta_block_handle_)
  phase,      \* "building", "built", "scattered", "finalized", "published"
  readerFile, \* the reader's local_ra_file_: the metadata file it opened
  prefetch,   \* the reader's backing_mem_table_: local offset -> byte
  localMap,   \* stoc_local_offset_: (server, file) key -> [offset, local_offset]
  lastRead    \* the last block read: [blk, bytes], or NoRead

tableVars == <<nblocks, bsize>>
writerVars == <<mem, usedSize, alloc, appended, groups, status, filterStart,
                localFile, metaAt, metaStore>>
storeVars == <<stoc, stocOff>>
readerVars == <<readerFile, prefetch, localMap, lastRead>>
vars == <<tableVars, writerVars, storeVars, phase, readerVars>>

\* Offset of data block i in the original table (blocks are contiguous).
BlockOff(i) == SumTo([k \in 1..nblocks |-> bsize[k] + Trailer], i - 1)
DataEnd == BlockOff(nblocks + 1)

\* The builder's layout after the data region.
FilterOff == DataEnd
MetaIndexOff == FilterOff + FilterLen + Trailer
IndexOff == MetaIndexOff + MetaIndexLen + Trailer
FooterOff == IndexOff + IndexLen + Trailer
FileSize == FooterOff + FooterLen
-----------------------------------------------------------------------------
(* Format(), lines 180-211: nblocks_in_group_.                             *)

\* Mutant: the n < s case is not special-cased.
GroupSizesNoSmallCase(n, s) ==
  [i \in 1..s |-> n \div s + (IF i <= n % s THEN 1 ELSE 0)]

GroupSizes(n, s) ==
  IF n >= s
  THEN [i \in 1..s |-> n \div s + (IF i <= n % s THEN 1 ELSE 0)]
  ELSE <<n>>

\* Mutant: the group size leaves out the block trailers.
RECURSIVE FormatWalkNoTrailer(_, _, _, _, _, _)
FormatWalkNoTrailer(i, n, off, size, gid, acc) ==
  IF i > nblocks THEN acc
  ELSE LET off2 == IF n = 0 THEN BlockOff(i) ELSE off
           size2 == size + bsize[i]
       IN IF n + 1 = groups[gid]
          THEN FormatWalkNoTrailer(i + 1, 0, 0, 0, gid + 1,
                          Append(acc, [off |-> off2, size |-> size2]))
          ELSE FormatWalkNoTrailer(i + 1, n + 1, off2, size2, gid, acc)

\* Format(), lines 227-268: walk the index, closing a group when it has its
\* count of blocks; each closed group is one InitiateAppendBlock of
\* [offset, offset + size) of backing_mem_.  Sizes include the trailer.
RECURSIVE FormatWalk(_, _, _, _, _, _)
FormatWalk(i, n, off, size, gid, acc) ==
  IF i > nblocks THEN acc
  ELSE LET off2 == IF n = 0 THEN BlockOff(i) ELSE off
           size2 == size + bsize[i] + Trailer
       IN IF n + 1 = groups[gid]
          THEN FormatWalk(i + 1, 0, 0, 0, gid + 1,
                          Append(acc, [off |-> off2, size |-> size2]))
          ELSE FormatWalk(i + 1, n + 1, off2, size2, gid, acc)

\* Mutant: relative_offset taken once, from the table's first block.
RECURSIVE FinalizeWalkRelOnce(_, _, _, _, _)
FinalizeWalkRelOnce(i, n, rel, gid, acc) ==
  IF i > nblocks THEN acc
  ELSE LET h == status[gid].handle
           rel2 == IF i = 1 THEN BlockOff(i) ELSE rel
           e == [server |-> h.server, off |-> (BlockOff(i) - rel2) + h.off,
                 size |-> bsize[i]]
       IN IF n + 1 = groups[gid]
          THEN FinalizeWalkRelOnce(i + 1, 0, rel2, gid + 1, Append(acc, e))
          ELSE FinalizeWalkRelOnce(i + 1, n + 1, rel2, gid, Append(acc, e))

\* Finalize(), lines 312-356: rewrite each index entry into its group's
\* StoC segment: (offset - relative_offset) + group handle offset; the size
\* does not include the trailer.
RECURSIVE FinalizeWalk(_, _, _, _, _)
FinalizeWalk(i, n, rel, gid, acc) ==
  IF i > nblocks THEN acc
  ELSE LET h == status[gid].handle
           rel2 == IF n = 0 THEN BlockOff(i) ELSE rel
           e == [server |-> h.server, off |-> (BlockOff(i) - rel2) + h.off,
                 size |-> bsize[i]]
       IN IF n + 1 = groups[gid]
          THEN FinalizeWalk(i + 1, 0, 0, gid + 1, Append(acc, e))
          ELSE FinalizeWalk(i + 1, n + 1, rel2, gid, Append(acc, e))
-----------------------------------------------------------------------------
(* Building the table in backing_mem_.                                     *)

Handle(o, n) == [off |-> o, size |-> n]

\* WriteBlock and WriteRawBlock, lines 456-506: a block's contents followed
\* by its trailer (type and crc; the last byte is '!', never 0).  Every
\* content byte holds the decoded block.
MetaBlock(rec, len) ==
  [j \in 1..(len + Trailer) |-> IF j <= len THEN rec ELSE TrailerByte]

FooterRec(mh, ih) == [blk |-> "footer", metaindex |-> mh, index |-> ih]

\* The builder's k-th Append (spec §4.3, build phase): the data blocks,
\* then the filter, the meta-index naming the filter, the index of
\* BlockHandles, and the footer naming the last two.
BuilderChunk(k) ==
  CASE k <= nblocks -> [j \in 1..(bsize[k] + Trailer) |-> Data(BlockOff(k) + j)]
    [] k = nblocks + 1 -> MetaBlock([blk |-> "filter"], FilterLen)
    [] k = nblocks + 2 ->
         MetaBlock([blk |-> "metaindex", filter |-> Handle(FilterOff, FilterLen)], MetaIndexLen)
    [] k = nblocks + 3 ->
         MetaBlock([blk |-> "index",
                    entries |-> [i \in 1..nblocks |-> Handle(BlockOff(i), bsize[i])]], IndexLen)
    [] OTHER -> [j \in 1..FooterLen |->
                   FooterRec(Handle(MetaIndexOff, MetaIndexLen), Handle(IndexOff, IndexLen))]

\* Write(offset, data), lines 140-147: memcpy into backing_mem_ at offset.
WriteAt(m, o, bytes) ==
  [x \in DOMAIN m |-> IF x >= o /\ x < o + Len(bytes) THEN bytes[x - o + 1] ELSE m[x]]

\* Append(const Slice &data), lines 129-138: assert the data fits strictly
\* below allocated_size_, copy it at used_size_, advance used_size_.
AppendData(bytes) ==
  /\ usedSize + Len(bytes) < alloc
  /\ mem' = WriteAt(mem, usedSize, bytes)
  /\ usedSize' = usedSize + Len(bytes)

\* Append(uint32_t size), lines 92-99: the caller has already written the
\* bytes at Buf() (lines 88-90, backing_mem_ + used_size_); assert and
\* advance used_size_.
AppendSize(n) ==
  /\ usedSize + n < alloc
  /\ usedSize' = usedSize + n

\* The table builder appends its next block, either by copy (Append(data))
\* or in place through Buf() then Append(size); set_num_data_blocks has
\* been called with nblocks.
BuilderAppend ==
  /\ phase = "building"
  /\ LET c == BuilderChunk(appended + 1) IN
       \/ AppendData(c)
       \/ mem' = WriteAt(mem, usedSize, c) /\ AppendSize(Len(c))
  /\ appended' = appended + 1
  /\ phase' = IF appended + 1 = nblocks + 4 THEN "built" ELSE "building"
  /\ UNCHANGED <<tableVars, alloc, groups, status, filterStart, localFile,
                 metaAt, metaStore, storeVars, readerVars>>

\* Mutant: n is not cut to what has been written.
WriterReadNoClamp(o, n) ==
  [k \in 1..n |-> IF o + k - 1 \in DOMAIN mem THEN mem[o + k - 1] ELSE NoByte]

\* StoCWritableFileClient::Read, lines 66-86 (Size() is used_size_,
\* stoc_file_client_impl.h line 35): available = Size() - min(Size(),
\* offset); n is cut to it; n = 0 gives an empty slice, else the bytes of
\* backing_mem_ at offset.  It changes no state.
WriterRead(o, n) ==
  LET avail == usedSize - (IF usedSize < o THEN usedSize ELSE o)
      len == IF n > avail THEN avail ELSE n
  IN  [k \in 1..len |-> mem[o + k - 1]]

-----------------------------------------------------------------------------

\* The constructor, lines 19-49: a slab of allocated_size_ bytes for a table
\* the builder will fill; the caller chooses the size.
Init ==
  /\ nblocks \in 1..MaxBlocks
  /\ bsize \in [1..nblocks -> BlockSizes]
  /\ mem = [x \in MemOffsets |-> NoByte]
  /\ usedSize = 0
  /\ alloc = FileSize + AllocSlack
  /\ appended = 0
  /\ groups = <<>>
  /\ status = <<>>
  /\ stoc = [s \in StoCs |-> [x \in Offsets |-> NoByte]]
  /\ stocOff \in [StoCs -> 0..MaxBase]
  /\ filterStart = 0
  /\ localFile = <<>>
  /\ metaAt = "none"
  /\ metaStore = <<>>
  /\ phase = "building"
  /\ readerFile = <<>>
  /\ prefetch = [x \in Offsets |-> NoByte]
  /\ localMap = [k \in {} |-> 0]
  /\ lastRead = NoRead

\* Format(), lines 158-179: decode the footer at used_size_ -
\* kEncodedLength and the index block it names (both asserted), split the
\* data blocks into groups, pick one StoC per group (StorageSelector, spec
\* §4.3 step 3: distinct peers) and issue every group's RDMA WRITE.
Format ==
  /\ LET ft == mem[usedSize - FooterLen] IN
     ft.blk = "footer" /\ mem[ft.index.off].blk = "index"
  /\ LET gs == GroupSizes(nblocks, Scatter) IN
     /\ groups' = gs
     /\ \E sel \in [1..Len(gs) -> StoCs] :
          /\ \A a, b \in 1..Len(gs) : a # b => sel[a] # sel[b]
          /\ status' = [g \in 1..Len(gs) |->
                          [server |-> sel[g], req |-> "sent", handle |-> NoHandle]]
  /\ phase' = "scattered"

\* Fsync(), lines 149-155: assert used_size_ is the table's file size, then
\* Format().
Fsync ==
  /\ phase = "built"
  /\ usedSize = FileSize
  /\ Format
  /\ UNCHANGED <<tableVars, mem, usedSize, alloc, appended, filterStart,
                 localFile, metaAt, metaStore, storeVars, readerVars>>

\* The StoC of group g appends the group's bytes, read from backing_mem_,
\* to its open segment and answers with the StoCBlockHandle (spec §4.2
\* append, §4.5 Persist).  Answers arrive in any order.
StoCAppendGroup(g) ==
  /\ phase = "scattered"
  /\ status[g].req = "sent"
  /\ LET w == FormatWalk(1, 0, 0, 0, 1, <<>>)[g]
         s == status[g].server
     IN /\ stoc' = [stoc EXCEPT ![s] = [x \in Offsets |->
                      IF x >= stocOff[s] /\ x < stocOff[s] + w.size
                      THEN mem[w.off + (x - stocOff[s])] ELSE @[x]]]
        /\ stocOff' = [stocOff EXCEPT ![s] = @ + w.size]
        /\ status' = [status EXCEPT ![g] =
                        [@ EXCEPT !.req = "done",
                                  !.handle = [server |-> s, off |-> stocOff[s],
                                              size |-> w.size]]]
  /\ UNCHANGED <<tableVars, mem, usedSize, alloc, appended, groups,
                 filterStart, localFile, metaAt, metaStore, phase,
                 readerVars>>

\* Mutant: the meta-index handle keeps kBlockTrailerSize in its size.
MetaBlobTrailerInHandle(m, fstart, fsize, entries) ==
  LET mOff == fsize + Trailer
      iOff == mOff + MetaIndexLen + Trailer
      fOff == iOff + NewIndexLen + Trailer
      mi == [blk |-> "metaindex", filter |-> Handle(0, fsize)]
      ix == [blk |-> "index", entries |-> entries]
      ft == FooterRec(Handle(mOff, MetaIndexLen + Trailer), Handle(iOff, NewIndexLen))
      m1 == WriteAt(m, fstart + mOff, MetaBlock(mi, MetaIndexLen))
      m2 == WriteAt(m1, fstart + iOff, MetaBlock(ix, NewIndexLen))
  IN  [mem |-> WriteAt(m2, fstart + fOff, [j \in 1..FooterLen |-> ft]),
       size |-> fOff + FooterLen]

\* Finalize(), lines 360-404: new_file_size counts the filter block left in
\* place and its trailer; then the meta-index naming the filter at offset 0
\* (WriteBlock), the rewritten index (WriteBlock) and the new footer
\* (Write) are written after it.  Handles are relative to the blob and
\* exclude the trailer.  Returns backing_mem_ and new_file_size.
MetaBlob(m, fstart, fsize, entries) ==
  LET mOff == fsize + Trailer
      iOff == mOff + MetaIndexLen + Trailer
      fOff == iOff + NewIndexLen + Trailer
      mi == [blk |-> "metaindex", filter |-> Handle(0, fsize)]
      ix == [blk |-> "index", entries |-> entries]
      ft == FooterRec(Handle(mOff, MetaIndexLen), Handle(iOff, NewIndexLen))
      m1 == WriteAt(m, fstart + mOff, MetaBlock(mi, MetaIndexLen))
      m2 == WriteAt(m1, fstart + iOff, MetaBlock(ix, NewIndexLen))
  IN  [mem |-> WriteAt(m2, fstart + fOff, [j \in 1..FooterLen |-> ft]),
       size |-> fOff + FooterLen]

\* Finalize(), lines 405-452: the blob goes to the local table file and is
\* appended, as meta blocks, to one StoC chosen at random.
StoreMetaBlob(blob) ==
  /\ localFile' = blob
  /\ \E s \in StoCs : metaAt' = s
  /\ metaStore' = blob

\* WaitForPersistingDataBlocks() then Finalize(), lines 281-359: every
\* group's handle is in, the footer read before the rewrite gives the
\* meta-index offset, the index is rewritten, and the filter block starts
\* after the last data block's trailer (line 328).  The blob must end below
\* allocated_size_ (NOVA_ASSERT, line 405).
Finalize ==
  /\ phase = "scattered"
  /\ \A g \in DOMAIN status : status[g].req = "done"
  /\ LET ft == mem[usedSize - FooterLen]
         fstart == BlockOff(nblocks) + bsize[nblocks] + Trailer
         res == MetaBlob(mem, fstart, ft.metaindex.off - fstart - Trailer,
                         FinalizeWalk(1, 0, 0, 1, <<>>))
     IN /\ fstart + res.size < alloc
        /\ mem' = res.mem
        /\ usedSize' = IF fstart + res.size > usedSize THEN fstart + res.size ELSE usedSize
        /\ filterStart' = fstart
        /\ StoreMetaBlob([k \in 1..res.size |-> res.mem[fstart + k - 1]])
  /\ phase' = "finalized"
  /\ UNCHANGED <<tableVars, alloc, appended, groups, status,
                 storeVars, readerVars>>

\* The caller installs FileMetaData{meta_block_handle, rhs()}.
Publish ==
  /\ phase = "finalized"
  /\ phase' = "published"
  /\ UNCHANGED <<tableVars, writerVars, storeVars, readerVars>>

\* Table::Open on the reader's metadata file (outside src/): the footer is
\* its last kEncodedLength bytes and names the index block; <<>> if it does
\* not decode.
BlobIndex ==
  IF Len(readerFile) < FooterLen THEN <<>>
  ELSE LET ft == readerFile[Len(readerFile) - FooterLen + 1]
       IN  IF /\ ft.blk = "footer"
              /\ ft.index.off + 1 \in DOMAIN readerFile
              /\ readerFile[ft.index.off + 1].blk = "index"
           THEN readerFile[ft.index.off + 1].entries
           ELSE <<>>

\* ReadAll(), lines 630-671: one READ per group handle into consecutive
\* ranges of the prefetch buffer, remembered by (server_id, stoc_file_id).
\* Each StoC holds the groups in one segment, so server_id is the key.
ReadAll ==
  LET hs == [g \in DOMAIN status |-> status[g].handle]
      base(g) == SumTo([k \in DOMAIN hs |-> hs[k].size], g - 1)
      gOf(x) == CHOOSE g \in DOMAIN hs : x >= base(g) /\ x < base(g) + hs[g].size
      total == base(Len(hs) + 1)
  IN /\ prefetch' = [x \in Offsets |->
                       IF x < total
                       THEN stoc[hs[gOf(x)].server][hs[gOf(x)].off + (x - base(gOf(x)))]
                       ELSE NoByte]
     /\ localMap' = [k \in {hs[g].server : g \in DOMAIN hs} |->
                       LET g == CHOOSE j \in DOMAIN hs : hs[j].server = k
                       IN  [offset |-> hs[g].off, local |-> base(g)]]

\* FetchMetadataFiles (outside src/): READ the metadata blob at
\* meta_block_handle from its StoC into a local file.
FetchMetadataFile == metaStore

\* The reader's constructor, lines 511-548: if <dbname>/<file_number>.ldb
\* does not exist on this node (the reader runs on another LTC, or on a
\* StoC executing a compaction, spec section 4.5) fetch it, open it as
\* local_ra_file_, and if prefetch_all_, ReadAll (asserted to succeed).
ReaderOpen(onWriterNode, prefetchAll) ==
  /\ phase = "published"
  /\ readerFile = <<>>
  /\ readerFile' = IF onWriterNode THEN localFile ELSE FetchMetadataFile
  /\ IF prefetchAll THEN ReadAll ELSE UNCHANGED <<prefetch, localMap>>
  /\ UNCHANGED <<tableVars, writerVars, storeVars, phase, lastRead>>

\* Read(), lines 561-571: a block, located through the index, from the
\* prefetch buffer at local_offset + (offset - buf.offset).
ReadPrefetched(i) ==
  /\ localMap # [k \in {} |-> 0]
  /\ i \in DOMAIN BlobIndex
  /\ LET h == BlobIndex[i]
         lo == localMap[h.server].local + (h.off - localMap[h.server].offset)
     IN lastRead' = [blk |-> i, bytes |-> [k \in 1..h.size |-> prefetch[lo + k - 1]]]
  /\ UNCHANGED <<tableVars, writerVars, storeVars, phase, readerFile, prefetch, localMap>>

\* Read(), lines 572-604: one RDMA READ of [offset, offset + n) from the
\* StoC the index names.
ReadLazy(i) ==
  /\ i \in DOMAIN BlobIndex
  /\ LET h == BlobIndex[i]
     IN lastRead' = [blk |-> i, bytes |-> [k \in 1..h.size |-> stoc[h.server][h.off + k - 1]]]
  /\ UNCHANGED <<tableVars, writerVars, storeVars, phase, readerFile, prefetch, localMap>>

Next ==
  \/ BuilderAppend
  \/ Fsync
  \/ \E g \in DOMAIN status : StoCAppendGroup(g)
  \/ Finalize
  \/ Publish
  \/ \E w, p \in BOOLEAN : ReaderOpen(w, p)
  \/ \E i \in 1..nblocks : ReadPrefetched(i) \/ ReadLazy(i)

Spec == Init /\ [][Next]_vars

-----------------------------------------------------------------------------
(* Properties.                                                             *)

TypeOK ==
  /\ nblocks \in 1..MaxBlocks
  /\ bsize \in [1..nblocks -> BlockSizes]
  /\ DOMAIN mem = MemOffsets
  /\ usedSize \in 0..alloc /\ appended \in 0..(nblocks + 4)
  /\ groups \in Seq(1..MaxBlocks)
  /\ \A g \in DOMAIN status : status[g].server \in StoCs /\ status[g].req \in {"sent", "done"}
  /\ \A s \in StoCs : DOMAIN stoc[s] = Offsets
  /\ stocOff \in [StoCs -> Offsets]
  /\ metaAt \in StoCs \cup {"none"}
  /\ phase \in {"building", "built", "scattered", "finalized", "published"}
  /\ DOMAIN prefetch = Offsets

\* The bytes the original table had at [o, o + n).
Original(o, n) == [k \in 1..n |-> Data(o + k)]

\* Whichever way a block is read, lazily through the index decoded from the
\* metadata blob or from the prefetch buffer through the (server, file)
\* map, it returns the bytes that block had in backing_mem_ when the builder
\* appended it: grouping (Format), the StoC's choice of offsets, the index
\* rewrite and blob layout (Finalize) and the prefetch layout (ReadAll)
\* agree, in whatever order the groups land.
ReadReturnsBlock ==
  lastRead # NoRead =>
    lastRead.bytes = Original(BlockOff(lastRead.blk), bsize[lastRead.blk])

\* What the builder has appended so far, block after block.
Built == SX!FlattenSeq([k \in 1..appended |-> BuilderChunk(k)])

\* Until Finalize rewrites the tail, the writable file's own Read returns
\* exactly the bytes the builder appended at [offset, offset + n), cut at
\* the end of what was appended: nothing past used_size_ and an empty slice
\* at or past it, whichever of Append(data) or Buf()/Append(size) wrote
\* them and wherever the read starts.
BufferReadReturnsAppended ==
  phase \in {"building", "built", "scattered"} =>
    \A o \in 0..(usedSize + 1), n \in 1..2 :
      WriterRead(o, n) = SubSeq(Built, o + 1, IF o + n < Len(Built) THEN o + n ELSE Len(Built))

\* The published group handles cover the data region exactly (spec §3: the
\* sum of their sizes is the data region), and the metadata blob Finalize
\* writes starts at the first byte after it.
GroupHandlesCoverData ==
  phase \in {"finalized", "published"} =>
    /\ SumTo([g \in DOMAIN status |-> status[g].handle.size], Len(status)) = DataEnd
    /\ filterStart = DataEnd

\* In file f, a block of kind k at handle h: its bytes hold one content of
\* kind k and its trailer follows.
BlockIn(f, h, k) ==
  /\ h.off >= 0 /\ h.size > 0 /\ h.off + h.size + Trailer <= Len(f)
  /\ f[h.off + 1].blk = k
  /\ \A j \in 1..h.size : f[h.off + j] = f[h.off + 1]
  /\ \A j \in 1..Trailer : f[h.off + h.size + j] = TrailerByte

\* The metadata blob Finalize rewrites over the table's tail (spec §3 and
\* §4.3 Finalize step 2) is self-consistent: its footer names a meta-index
\* and an index inside it, the meta-index names the original filter block
\* at offset 0, and the blob is exactly [filter][meta-index][index][footer]
\* in that order, whatever the sizes of the data region and of the new
\* index, written over the old meta-index, index and footer.
MetaBlobSelfConsistent ==
  phase \in {"finalized", "published"} =>
    LET f == localFile
        ft == f[Len(f) - FooterLen + 1]
    IN  /\ Len(f) >= FooterLen
        /\ ft.blk = "footer"
        /\ BlockIn(f, ft.metaindex, "metaindex")
        /\ BlockIn(f, ft.index, "index")
        /\ f[ft.metaindex.off + 1].filter = Handle(0, FilterLen)
        /\ BlockIn(f, Handle(0, FilterLen), "filter")
        /\ ft.metaindex.off = FilterLen + Trailer
        /\ ft.index.off = ft.metaindex.off + ft.metaindex.size + Trailer
        /\ Len(f) = ft.index.off + ft.index.size + Trailer + FooterLen

\* Spec §4.3 step 2 and §8: G = min(num_stocs_scatter_data_blocks,
\* num_data_blocks) groups, the first (num_data_blocks mod G) one block larger.
SpecGroupSizes(n, s) ==
  LET G == IF n < s THEN n ELSE s
  IN  [i \in 1..G |-> n \div G + (IF i <= n % G THEN 1 ELSE 0)]

GroupsAsSpecified == groups # <<>> => groups = SpecGroupSizes(nblocks, Scatter)

=============================================================================
