------------------------------- MODULE Layout -------------------------------
(***************************************************************************)
(* The superblock and the layout of the raw device: the size that is       *)
(* offered for a device (calc_avail_sectors), the constructor's check of   *)
(* the size it is given, the regions laid out by superblock_init, the      *)
(* tables formatted by metadata_format and found again at a reload.        *)
(*                                                                         *)
(* Sizes are in sectors and blocks as in the code.  dm-bufio writes a dirty*)
(* block when it likes; what is not written is lost in a crash.            *)
(***************************************************************************)
EXTENDS Integers, Sequences, FiniteSets

CONSTANTS
  Devices,           \* sizes of raw devices, in sectors
  SectorsPerBlock,   \* SECTORS_PER_BLOCK
  BlocksPerSegment,  \* BLOCKS_PER_SEGMENT
  NrGcPreserved,     \* NR_GC_PRESERVED
  NrJournalSegment,  \* NR_JOURNAL_SEGMENT
  SuperBlocks,       \* STRUCTURE_BLOCKS(struct superblock)
  BlockSize,         \* METADATA_BLOCK_SIZE
  BitBlocks,         \* calculate_bit_size, whole blocks ...
  BitBytes,          \* ... and the bytes over
  FileCapacity,      \* DEFAULT_LSM_FILE_CAPACITY
  Level0Files,       \* DEFAULT_LSM_LEVEL0_NR_FILE
  BitsPerLong,       \* BITS_PER_LONG
  LongsPerBlock,     \* longs in a metadata block
  DstPerBlock,       \* entries of the DST in a block
  RitPerBlock,       \* entries of the RIT in a block
  StatPerBlock,      \* file_stat entries in a block
  MaxReloads         \* bound: reloads in a behaviour

ASSUME LayoutAssumption ==
  /\ Devices \subseteq Nat
  /\ {SectorsPerBlock, BlocksPerSegment, BlockSize, FileCapacity, BitsPerLong,
      LongsPerBlock, DstPerBlock, RitPerBlock, StatPerBlock, NrJournalSegment} \subseteq Nat \ {0}
  /\ {NrGcPreserved, SuperBlocks, BitBlocks, BitBytes,
      Level0Files, MaxReloads} \subseteq Nat

NrCheckpointPacks == 2
SectorsPerSegment == SectorsPerBlock * BlocksPerSegment

VARIABLES
  dev,        \* sectors of the raw device
  pc,         \* where the probe, the constructor or metadata_format is
  real, avail, step,   \* locals of calc_avail_sectors
  nrSegment,  \* NR_SEGMENT, from the length of the target
  sb,         \* nr_segment of the superblock in memory, 0 for none
  disk,       \* nr_segment of the superblock on the device, 0 for none
  vf,         \* per table, the copy selected by journal->valid_fields
  formats,    \* blocks formatted, in order: [tab, first, last, durable]
  reloads,    \* reloads so far
  torn        \* history: a crash lost a part of the format

vars == <<dev, pc, real, avail, step, nrSegment, sb, disk, vf, formats, reloads, torn>>

probe == <<real, avail, step>>

-----------------------------------------------------------------------------
CeilDiv(a, b) == IF a = 0 THEN 0 ELSE (a - 1) \div b + 1

(* __disk_array_blocks: one block too many when the last one is full.      *)
DiskArrayBlocks(nr, perBlock) == nr \div perBlock + 1

(* __total_bit for two disk levels, the number the code passes everywhere: *)
(* its loop runs once.  __extra_bit is the same number again.              *)
TotalBit(capacity) == CeilDiv(capacity, FileCapacity) + Level0Files
NrBits(nr) == 2 * TotalBit(nr * BlocksPerSegment)

(* __index_region_blocks, with the bytes of a file split at whole blocks.  *)
IndexRegionBlocks(nr) == NrBits(nr) * BitBlocks + CeilDiv(NrBits(nr) * BitBytes, BlockSize)

JournalRegionBlocks == NrJournalSegment * BlocksPerSegment

(* __seg_validity_table_blocks, for nr bits in longs.                      *)
SegValidityTableBlocks(nr) == CeilDiv(CeilDiv(nr, BitsPerLong), LongsPerBlock)

DataSegTableBlocks(nr) == DiskArrayBlocks(nr, DstPerBlock)
ReverseIndexTableBlocks(nr) == DiskArrayBlocks(nr * BlocksPerSegment, RitPerBlock)
BitCatalogueBlocks(nr) == DiskArrayBlocks(nr, StatPerBlock)

(* superblock_init: each region starts where the one before it ends.       *)
IndexStart == SuperBlocks
JournalStart(nr) == IndexStart + IndexRegionBlocks(nr)
SvtStart(nr) == JournalStart(nr) + JournalRegionBlocks
DstStart(nr) == SvtStart(nr) + SegValidityTableBlocks(nr) * NrCheckpointPacks
RitStart(nr) == DstStart(nr) + DataSegTableBlocks(nr) * NrCheckpointPacks
BitcStart(nr) == RitStart(nr) + ReverseIndexTableBlocks(nr) * NrCheckpointPacks
DataStart(nr) == BitcStart(nr)
  + (SegValidityTableBlocks(NrBits(nr)) + BitCatalogueBlocks(NrBits(nr))) * NrCheckpointPacks

CalcMetadataBlocks(nr) ==
  SuperBlocks + IndexRegionBlocks(nr) + JournalRegionBlocks
  + SegValidityTableBlocks(nr) * NrCheckpointPacks
  + DataSegTableBlocks(nr) * NrCheckpointPacks
  + ReverseIndexTableBlocks(nr) * NrCheckpointPacks
  + SegValidityTableBlocks(NrBits(nr)) * NrCheckpointPacks
  + BitCatalogueBlocks(NrBits(nr)) * NrCheckpointPacks

(* The tables of the checkpoint region: where the pair of copies starts,   *)
(* the blocks of a copy (blk_count), the blocks disk_array_format writes.  *)
Tables == {"svt", "dst", "rit", "bvt", "stat"}

TabStart(t, nr) ==
  CASE t = "svt" -> SvtStart(nr)
    [] t = "dst" -> DstStart(nr)
    [] t = "rit" -> RitStart(nr)
    [] t = "bvt" -> BitcStart(nr)
    [] t = "stat" -> BitcStart(nr) + SegValidityTableBlocks(NrBits(nr)) * NrCheckpointPacks

BlkCount(t, nr) ==
  CASE t = "svt" -> SegValidityTableBlocks(nr)
    [] t = "dst" -> DataSegTableBlocks(nr)
    [] t = "rit" -> ReverseIndexTableBlocks(nr)
    [] t = "bvt" -> SegValidityTableBlocks(NrBits(nr))
    [] t = "stat" -> BitCatalogueBlocks(NrBits(nr))

FormatBlocks(t, nr) ==
  CASE t = "svt" -> DiskArrayBlocks(CeilDiv(nr, BitsPerLong), LongsPerBlock)
    [] t = "bvt" -> DiskArrayBlocks(CeilDiv(NrBits(nr), BitsPerLong), LongsPerBlock)
    [] OTHER -> BlkCount(t, nr)

CopyStart(t, nr, c) == TabStart(t, nr) + c * BlkCount(t, nr)

-----------------------------------------------------------------------------
Init ==
  /\ dev \in Devices
  /\ pc = "start" /\ real = 0 /\ avail = 0 /\ step = 0
  /\ nrSegment = 0 /\ sb = 0 /\ disk = 0
  /\ vf = [t \in Tables |-> 0]
  /\ formats = <<>> /\ reloads = 0 /\ torn = FALSE

(* calc_avail_sectors, called through the control device.                  *)
(* Mutant: a device smaller than the preserved segments is not refused.    *)
CalcAvail_NoCheck ==
  /\ pc = "start"
  /\ pc' = "probe"
  /\ real' = dev - NrGcPreserved * SectorsPerSegment
  /\ avail' = 0
  /\ step' = (real' \div 2) \div SectorsPerSegment
  /\ UNCHANGED <<dev, nrSegment, sb, disk, vf, formats, reloads, torn>>

CalcAvail ==
  /\ pc = "start"
  /\ IF dev < NrGcPreserved * SectorsPerSegment
     THEN pc' = "avail" /\ UNCHANGED probe
     ELSE /\ pc' = "probe"
          /\ real' = dev - NrGcPreserved * SectorsPerSegment
          /\ avail' = 0
          /\ step' = (real' \div 2) \div SectorsPerSegment
  /\ UNCHANGED <<dev, nrSegment, sb, disk, vf, formats, reloads, torn>>

(* One turn of the loop.  The subtraction is of unsigned numbers: beyond   *)
(* the device it is larger than any size.                                  *)
(* Mutant: the step is not tried again after it fitted.                    *)
Probe_Halves ==
  /\ pc = "probe"
  /\ IF avail < real /\ step # 0
     THEN LET p == avail + step * SectorsPerSegment
              meta == CalcMetadataBlocks(p \div SectorsPerSegment + NrGcPreserved) * SectorsPerBlock
          IN /\ avail' = IF meta <= real - p \/ p > real THEN p ELSE avail
             /\ step' = step \div 2
             /\ UNCHANGED <<pc, real>>
     ELSE pc' = "avail" /\ UNCHANGED probe
  /\ UNCHANGED <<dev, nrSegment, sb, disk, vf, formats, reloads, torn>>

Probe ==
  /\ pc = "probe"
  /\ IF avail < real /\ step # 0
     THEN LET p == avail + step * SectorsPerSegment
              meta == CalcMetadataBlocks(p \div SectorsPerSegment + NrGcPreserved) * SectorsPerBlock
          IN /\ IF meta <= real - p \/ p > real
                THEN avail' = p /\ UNCHANGED step
                ELSE step' = step \div 2 /\ UNCHANGED avail
             /\ UNCHANGED <<pc, real>>
     ELSE pc' = "avail" /\ UNCHANGED probe
  /\ UNCHANGED <<dev, nrSegment, sb, disk, vf, formats, reloads, torn>>

(* dm_jindisk_target_ctr accepts a length of the target.                   *)
(* Mutant: the preserved segments are not counted.                         *)
Fits_NoPreserved(len) ==
  CalcMetadataBlocks(len \div SectorsPerSegment + NrGcPreserved) * SectorsPerBlock + len <= dev

Fits(len) ==
  CalcMetadataBlocks(len \div SectorsPerSegment + NrGcPreserved) * SectorsPerBlock
    + len + NrGcPreserved * SectorsPerSegment <= dev

(* Lengths tried: what is offered, a sector and a segment more, a segment  *)
(* less.                                                                   *)
Lengths == {l \in {avail - SectorsPerSegment, avail, avail + 1, avail + SectorsPerSegment} : l >= 0}

(* The constructor with the format flag: superblock_init lays the regions  *)
(* out and dirties the superblock.  valid_fields of the journal is memory  *)
(* that was not written.                                                   *)
Create(len) ==
  /\ pc = "avail"
  /\ Fits(len)
  /\ nrSegment' = len \div SectorsPerSegment
  /\ sb' = nrSegment' + NrGcPreserved
  /\ vf' \in [Tables -> {0, 1}]
  /\ formats' = <<>>
  /\ pc' = "svt"
  /\ UNCHANGED <<dev, probe, disk, reloads, torn>>

Reject(len) ==
  /\ pc = "avail"
  /\ ~Fits(len)
  /\ pc' = "rejected"
  /\ UNCHANGED <<dev, probe, nrSegment, sb, disk, vf, formats, reloads, torn>>

(* metadata_format: SVT, RIT, DST, then the catalogue's two tables.        *)
(* Mutant: the SVT is formatted after the DST.                             *)
FormatNext_SvtLate == [svt |-> "bvt", rit |-> "dst", dst |-> "svt", bvt |-> "stat", stat |-> "up"]

FormatNext == [svt |-> "rit", rit |-> "dst", dst |-> "bvt", bvt |-> "stat", stat |-> "up"]

FormatTable ==
  /\ pc \in Tables
  /\ formats' = Append(formats,
       [tab |-> pc, first |-> CopyStart(pc, sb, vf[pc]),
        last |-> CopyStart(pc, sb, vf[pc]) + FormatBlocks(pc, sb) - 1, durable |-> FALSE])
  /\ pc' = FormatNext[pc]
  /\ UNCHANGED <<dev, probe, nrSegment, sb, disk, vf, reloads, torn>>

(* dm-bufio writes the superblock, or the blocks of one format, back.      *)
WriteBack ==
  /\ pc \in Tables \cup {"up"}
  /\ \/ disk # sb /\ disk' = sb /\ UNCHANGED formats
     \/ \E i \in DOMAIN formats :
          /\ ~formats[i].durable
          /\ formats' = [formats EXCEPT ![i].durable = TRUE]
          /\ UNCHANGED disk
  /\ UNCHANGED <<dev, pc, probe, nrSegment, sb, vf, reloads, torn>>

(* metadata_destroy: dm_bufio_client_destroy writes what is dirty.         *)
Close ==
  /\ pc = "up"
  /\ pc' = "down"
  /\ disk' = sb /\ sb' = 0
  /\ formats' = [i \in DOMAIN formats |-> [formats[i] EXCEPT !.durable = TRUE]]
  /\ UNCHANGED <<dev, probe, nrSegment, vf, reloads, torn>>

(* What was not written back is not on the device after a crash.           *)
Lost == [tab |-> "none", first |-> 0, last |-> -1, durable |-> TRUE]

Crash ==
  /\ pc \in Tables \cup {"up"}
  /\ pc' = "down" /\ sb' = 0
  /\ torn' = (torn \/ pc # "up" \/ \E i \in DOMAIN formats : ~formats[i].durable)
  /\ formats' = [i \in DOMAIN formats |-> IF formats[i].durable THEN formats[i] ELSE Lost]
  /\ UNCHANGED <<dev, probe, nrSegment, disk, vf, reloads>>

(* The constructor without the format flag: superblock_read, which is      *)
(* refused when nothing valid was written.  NR_SEGMENT comes from the new  *)
(* length, the tables' sizes from the superblock.                          *)
Reload(len) ==
  /\ pc = "down" /\ reloads < MaxReloads
  /\ reloads' = reloads + 1
  /\ Fits(len) /\ disk # 0
  /\ nrSegment' = len \div SectorsPerSegment
  /\ sb' = disk
  /\ vf' \in [Tables -> {0, 1}]
  /\ pc' = "up"
  /\ UNCHANGED <<dev, probe, disk, formats, torn>>

ReloadRefused(len) ==
  /\ pc = "down" /\ reloads < MaxReloads
  /\ ~Fits(len) \/ disk = 0
  /\ pc' = "rejected"
  /\ UNCHANGED <<dev, probe, nrSegment, sb, disk, vf, formats, reloads, torn>>

Next ==
  \/ CalcAvail \/ Probe
  \/ \E len \in Lengths : Create(len) \/ Reject(len) \/ Reload(len) \/ ReloadRefused(len)
  \/ FormatTable \/ WriteBack \/ Close \/ Crash

Spec == Init /\ [][Next]_vars

-----------------------------------------------------------------------------
Pcs == Tables \cup {"start", "probe", "avail", "up", "down", "rejected"}

(* Type invariant: where the probe and the set-up can be, and locals of    *)
(* calc_avail_sectors that never go below zero.                            *)
TypeOK ==
  /\ dev \in Devices /\ pc \in Pcs
  /\ real \in Nat /\ avail \in Nat /\ step \in Nat
  /\ nrSegment \in Nat /\ sb \in Nat /\ disk \in Nat
  /\ vf \in [Tables -> {0, 1}]
  /\ reloads \in 0 .. MaxReloads

(* calc_avail_sectors returns the maximum available sectors: a target of   *)
(* that length is accepted and none a segment longer.                      *)
AvailIsMaximum ==
  pc = "avail" =>
    /\ avail % SectorsPerSegment = 0
    /\ avail # 0 => Fits(avail)
    /\ ~Fits(avail + SectorsPerSegment)

(* The last segment of the data region ends inside the raw device, behind  *)
(* all metadata, at a format and at every reload, whatever length it is    *)
(* given.                                                                  *)
DataInDevice ==
  sb # 0 => /\ DataStart(sb) = CalcMetadataBlocks(sb)
            /\ DataStart(sb) * SectorsPerBlock + sb * SectorsPerSegment <= dev

(* The format of a table may run one block past its copy, into another     *)
(* table.  Once the target is up, no block of the copy in use was formatted*)
(* by another table last, and all of it was formatted: unless a crash lost *)
(* a part of the format or the reload selected another copy.               *)
OwnFormatUnlessHazard ==
  pc = "up" /\ ~torn =>
    \A t \in Tables :
      LET first == CopyStart(t, sb, vf[t])
          last == first + BlkCount(t, sb) - 1
          mine == {i \in DOMAIN formats : formats[i].tab = t}
      IN \/ \E i \in mine : formats[i].first # first
         \/ /\ \E i \in mine : formats[i].first <= first /\ last <= formats[i].last
            /\ \A i \in DOMAIN formats \ mine :
                 formats[i].first <= last /\ first <= formats[i].last
                 => \E j \in mine : j > i
=============================================================================
