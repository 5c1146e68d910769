------------------------------ MODULE Geometry ------------------------------
(***************************************************************************)
(* The arithmetic of sizes: how a device is divided into chunks            *)
(* (module/diff_area.c) and tracking blocks (module/cbt_map.c), and how a  *)
(* request to the image walks over segments, chunks and pages              *)
(* (diff_area_image_io(), diff_buffer_iter_get()).                         *)
(*                                                                         *)
(* Abstractions.  Sizes are scaled down: a sector has 2^SECTOR_SHIFT bytes *)
(* with a small SECTOR_SHIFT, and so on, with every shift of the code      *)
(* kept.  Chunks are always loaded; ImageIo has the loading.               *)
(***************************************************************************)
EXTENDS Integers, Sequences, FiniteSetsExt

CONSTANTS
  SECTOR_SHIFT, PAGE_SHIFT,
  chunk_minimum_shift, chunk_maximum_count,
  tracking_block_minimum_shift, tracking_block_maximum_count,
  IntBits,    \* the width of an int
  Capacities, \* the capacities of devices, in sectors
  IoMins,     \* the values of bdev_io_min(), in bytes
  Segments    \* the lengths of a bio's segments, in sectors: sequences

ASSUME GeometryAssumption ==
  /\ SECTOR_SHIFT \in Nat /\ PAGE_SHIFT \in Nat /\ SECTOR_SHIFT <= PAGE_SHIFT
  /\ chunk_minimum_shift \in Nat /\ chunk_minimum_shift >= SECTOR_SHIFT
  /\ tracking_block_minimum_shift \in Nat
  /\ tracking_block_minimum_shift >= SECTOR_SHIFT
  /\ chunk_maximum_count \in Nat \ {0}
  /\ tracking_block_maximum_count \in Nat \ {0}
  /\ Capacities \subseteq Nat \ {0} /\ IoMins \subseteq Nat

VARIABLES
  capacity, io_min,  \* of the device
  shift,             \* the shift that is being tried
  blk_size_shift, blk_count,       \* of the CBT map
  blk_size,                        \* what collect_cbt_info() reports
  chunk_shift, sector_count,       \* of the area, of each chunk
  start, segments,   \* the request: its first sector, its segments
  pos,               \* the sector reached
  bv_len,            \* what is left of the segment, in bytes
  chunk,             \* of io_ctx
  buff_offset,
  copies,            \* the copies made: [chunk, page, offset, bytes]
  pc

cbtVars == <<blk_size_shift, blk_count, blk_size>>
chunkVars == <<chunk_shift, sector_count>>
ioVars == <<pos, bv_len, chunk, buff_offset, copies>>
device == <<capacity, io_min>>
request == <<start, segments>>
vars == <<device, shift, cbtVars, chunkVars, request, ioVars, pc>>

SECTOR == 2 ^ SECTOR_SHIFT
PAGE_SIZE == 2 ^ PAGE_SHIFT
PAGE_SECTORS == 2 ^ (PAGE_SHIFT - SECTOR_SHIFT)
round_up(n, unit) == ((n + unit - 1) \div unit) * unit
round_down(n, unit) == (n \div unit) * unit

(* Mutant: the unit that is not full is not counted.                       *)
CountWholeUnits(s) == capacity \div 2 ^ (s - SECTOR_SHIFT)

(* The number of units of 2^s bytes that a device needs.                   *)
count_by_shift(s) ==
  LET unit == 2 ^ (s - SECTOR_SHIFT) IN round_up(capacity, unit) \div unit

Init ==
  /\ capacity \in Capacities /\ io_min \in IoMins
  /\ shift = tracking_block_minimum_shift
  /\ blk_size_shift = 0 /\ blk_count = 0 /\ blk_size = 0
  /\ chunk_shift = 0 /\ sector_count = << >>
  /\ start = 0 /\ segments = << >>
  /\ pos = 0 /\ bv_len = 0 /\ chunk = -1 /\ buff_offset = 0 /\ copies = << >>
  /\ pc = "cbt"

-----------------------------------------------------------------------------
(* The loop of cbt_map_calculate_block_size(): "shift << 1" doubles the    *)
(* shift, which squares the size of the block.                             *)
LargerBlock ==
  /\ pc = "cbt" /\ count_by_shift(shift) > tracking_block_maximum_count
  /\ shift' = 2 * shift
  /\ UNCHANGED <<device, cbtVars, chunkVars, request, ioVars, pc>>

cbt_map_calculate_block_size ==
  /\ pc = "cbt" /\ count_by_shift(shift) <= tracking_block_maximum_count
  /\ blk_size_shift' = shift
  /\ blk_count' = count_by_shift(shift)
  /\ pc' = "collect"
  /\ UNCHANGED <<device, shift, blk_size, chunkVars, request, ioVars>>

(* cbt_map_blk_size() shifts an int.  A shift by its width or more is      *)
(* undefined: the compiler may give zero, or the processor may use the     *)
(* lower bits of the shift; the sign bit is kept by the conversion to      *)
(* __u32.                                                                  *)
collect_cbt_info ==
  /\ pc = "collect"
  /\ blk_size' \in IF blk_size_shift < IntBits
                   THEN {2 ^ blk_size_shift}
                   ELSE {0, 2 ^ (blk_size_shift % IntBits)}
  /\ shift' = chunk_minimum_shift
  /\ pc' = "area"
  /\ UNCHANGED <<device, blk_size_shift, blk_count, chunkVars, request,
                 ioVars>>

-----------------------------------------------------------------------------
(* The loop of diff_area_calculate_chunk_size().                           *)
ChunkTooSmall ==
  \/ count_by_shift(shift) > chunk_maximum_count
  \/ 2 ^ (shift - SECTOR_SHIFT) < io_min \div SECTOR

LargerChunk ==
  /\ pc = "area" /\ ChunkTooSmall
  /\ shift' = shift + 1
  /\ UNCHANGED <<device, cbtVars, chunkVars, request, ioVars, pc>>

(* recalculate_last_chunk_size()                                           *)
recalculate_last_chunk_size(size) ==
  IF capacity > round_down(capacity, size)
  THEN capacity - round_down(capacity, size)
  ELSE size

(* diff_area_new() creates the chunks.                                     *)
diff_area_new ==
  /\ pc = "area" /\ ~ ChunkTooSmall
  /\ chunk_shift' = shift
  /\ LET size == 2 ^ (shift - SECTOR_SHIFT)
         last == count_by_shift(shift) - 1
     IN sector_count' = [n \in 0 .. last |->
                           IF n = last THEN recalculate_last_chunk_size(size)
                                       ELSE size]
  /\ pc' = "idle"
  /\ UNCHANGED <<device, shift, cbtVars, request, ioVars>>

-----------------------------------------------------------------------------
chunk_number(sector) == sector \div 2 ^ (chunk_shift - SECTOR_SHIFT)
chunk_sector(c) == c * 2 ^ (chunk_shift - SECTOR_SHIFT)

(* The buffer of a chunk (diff_buffer_take()).                             *)
BufferPages ==
  round_up(2 ^ (chunk_shift - SECTOR_SHIFT), PAGE_SECTORS) \div PAGE_SECTORS
BufferSize == 2 ^ (chunk_shift - SECTOR_SHIFT) * SECTOR

SumOf(s) == MapThenSumSet(LAMBDA i : s[i], DOMAIN s)

(* A bio within the image comes to snapimage_process_bio().                *)
snapimage_process_bio ==
  /\ pc = "idle"
  /\ \E s \in Segments, p \in 0 .. capacity - 1 :
       /\ p + SumOf(s) <= capacity
       /\ start' = p /\ pos' = p /\ segments' = s
  /\ bv_len' = 0 /\ chunk' = -1 /\ copies' = << >>
  /\ pc' = "segment"
  /\ UNCHANGED <<device, shift, cbtVars, chunkVars, buff_offset>>

(* bio_for_each_segment()                                                  *)
NextSegment ==
  /\ pc = "segment" /\ segments # << >>
  /\ bv_len' = Head(segments) * SECTOR
  /\ segments' = Tail(segments)
  /\ pc' = "get"
  /\ UNCHANGED <<device, shift, cbtVars, chunkVars, start, pos, chunk,
                 buff_offset, copies>>

EndBio ==
  /\ pc = "segment" /\ segments = << >>
  /\ pc' = "ended"
  /\ UNCHANGED <<device, shift, cbtVars, chunkVars, request, ioVars>>

(* The outer loop of diff_area_image_io(): the chunk of pos, which the     *)
(* map of chunks must have, and the offset in its buffer.                  *)
GetChunk ==
  /\ pc = "get"
  /\ chunk' = chunk_number(pos)
  /\ IF chunk' \in DOMAIN sector_count
     THEN /\ buff_offset' = (pos - chunk_sector(chunk')) * SECTOR
          /\ pc' = "copy"
     ELSE /\ pc' = "failed"
          /\ UNCHANGED buff_offset
  /\ UNCHANGED <<device, shift, cbtVars, chunkVars, request, pos, bv_len,
                 copies>>

(* Mutant: the whole page is offered, whatever the offset in it.           *)
IterWholePage(offset) ==
  [page   |-> offset \div PAGE_SIZE,
   offset |-> offset % PAGE_SIZE,
   bytes  |-> Min({PAGE_SIZE, BufferSize - offset})]

diff_buffer_iter_get(offset) ==
  [page   |-> offset \div PAGE_SIZE,
   offset |-> offset % PAGE_SIZE,
   bytes  |-> Min({PAGE_SIZE - (offset % PAGE_SIZE), BufferSize - offset})]

(* The inner loop: copy_page_to_iter() or copy_page_from_iter() copies     *)
(* what the page offers and the segment still wants.                       *)
CopyPage ==
  /\ pc = "copy" /\ bv_len > 0 /\ buff_offset < BufferSize
  /\ LET iter == diff_buffer_iter_get(buff_offset)
         sz == Min({iter.bytes, bv_len})
     IN /\ copies' = Append(copies, [chunk |-> chunk, page |-> iter.page,
                                     offset |-> iter.offset, bytes |-> sz])
        /\ buff_offset' = buff_offset + sz
        /\ pos' = pos + sz \div SECTOR
        /\ bv_len' = bv_len - sz
  /\ UNCHANGED <<device, shift, cbtVars, chunkVars, request, chunk, pc>>

LeaveChunk ==
  /\ pc = "copy" /\ (bv_len = 0 \/ buff_offset >= BufferSize)
  /\ pc' = IF bv_len > 0 THEN "get" ELSE "segment"
  /\ UNCHANGED <<device, shift, cbtVars, chunkVars, request, ioVars>>

diff_area_image_io ==
  GetChunk \/ CopyPage \/ LeaveChunk

Next ==
  \/ LargerBlock \/ cbt_map_calculate_block_size \/ collect_cbt_info
  \/ LargerChunk \/ diff_area_new
  \/ snapimage_process_bio \/ NextSegment \/ EndBio
  \/ diff_area_image_io

(* The code is sequential: it goes on while it can.                        *)
Spec == Init /\ [][Next]_vars /\ WF_vars(Next)

-----------------------------------------------------------------------------
(* The types; offsets and lengths are never negative (they are unsigned in *)
(* the code), and the tables stay within their limits.                     *)
TypeOK ==
  /\ capacity \in Capacities /\ io_min \in IoMins /\ shift \in Nat
  /\ blk_size_shift \in Nat /\ blk_size \in Nat
  /\ blk_count \in 0 .. tracking_block_maximum_count
  /\ chunk_shift \in Nat
  /\ DOMAIN sector_count \subseteq 0 .. chunk_maximum_count - 1
  /\ start \in Nat /\ pos \in Nat /\ bv_len \in Nat /\ buff_offset \in Nat
  /\ chunk \in -1 .. chunk_maximum_count - 1
  /\ pc \in {"cbt", "collect", "area", "idle", "segment", "get", "copy",
             "ended", "failed"}

(* The chunks tile the device: every sector is in the chunk that           *)
(* chunk_number() gives, none is in two, and no chunk reaches past the end *)
(* of the device (diff_area_new(), recalculate_last_chunk_size()).         *)
ChunksTile ==
  chunk_shift # 0 =>
    /\ \A c \in DOMAIN sector_count :
         /\ sector_count[c] > 0
         /\ chunk_sector(c) + sector_count[c] <= capacity
    /\ \A s \in 0 .. capacity - 1 :
         {c \in DOMAIN sector_count :
            s \in chunk_sector(c) .. chunk_sector(c) + sector_count[c] - 1}
           = {chunk_number(s)}

(* The blocks of the CBT map cover the device and no block is without      *)
(* sectors, so _cbt_map_set() never finds a block index too large.         *)
BlocksCover ==
  blk_count # 0 =>
    {s \div 2 ^ (blk_size_shift - SECTOR_SHIFT) : s \in 0 .. capacity - 1}
      = 0 .. blk_count - 1

(* A request to the image transfers, in order and without a gap, the bytes *)
(* of the image that it names, from pages that the buffers have            *)
(* (diff_area_image_io(), diff_buffer_iter_get()).                         *)
ImageBytesExact ==
  /\ \A i \in DOMAIN copies :
       LET r == copies[i]
           before == MapThenSumSet(LAMBDA j : copies[j].bytes, 1 .. i - 1)
       IN /\ r.chunk * BufferSize + r.page * PAGE_SIZE + r.offset
               = start * SECTOR + before
          /\ r.page < BufferPages
          /\ r.bytes > 0 /\ r.offset + r.bytes <= PAGE_SIZE
  /\ pos * SECTOR = start * SECTOR
                    + MapThenSumSet(LAMBDA j : copies[j].bytes, DOMAIN copies)

(* A request within the image ends, and without an error: its loops leave  *)
(* every chunk and every segment, and no chunk is missing                  *)
(* (diff_area_image_io()).                                                 *)
RequestEnds == (pc = "segment") ~> (pc = "ended")

(* "Block size in bytes": what the ioctl reports is the size of the blocks *)
(* that the map has (cbt_map_blk_size()).                                  *)
BlockSizeReported ==
  pc = "area" => blk_size = 2 ^ blk_size_shift
=============================================================================
