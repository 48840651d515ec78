---------------------------- MODULE LayoutProofs ----------------------------
(* Proofs about Layout, for every geometry and every device.               *)
EXTENDS Layout, SequenceTheorems, TLAPS

(* The room that superblock n, with its data region, takes.                *)
Room(n) == CalcMetadataBlocks(n) * SectorsPerBlock + n * SectorsPerSegment <= dev

(* The invariant is inductive with the superblock on the device: a reload  *)
(* takes its sizes from there and not from the length it is given.         *)
IInv == TypeOK /\ (sb # 0 => Room(sb)) /\ (disk # 0 => Room(disk))

(* Division by a positive number.                                          *)
LEMMA DivNat ==
  ASSUME NEW a \in Nat, NEW b \in Nat \ {0}
  PROVE  a \div b \in Nat /\ b * (a \div b) <= a
BY SMTT(60)

LEMMA CeilDivNat ==
  ASSUME NEW a \in Nat, NEW b \in Nat \ {0}
  PROVE  CeilDiv(a, b) \in Nat
<1>1. CASE a = 0
  BY <1>1 DEF CeilDiv
<1>2. CASE a # 0
  <2>1. a - 1 \in Nat
    BY <1>2
  <2>2. (a - 1) \div b \in Nat
    BY <2>1, DivNat
  <2> QED BY <1>2, <2>2 DEF CeilDiv
<1> QED BY <1>1, <1>2

LEMMA DiskArrayBlocksNat ==
  ASSUME NEW a \in Nat, NEW b \in Nat \ {0}
  PROVE  DiskArrayBlocks(a, b) \in Nat
BY DivNat DEF DiskArrayBlocks

LEMMA ConstantsNat ==
  /\ SectorsPerBlock \in Nat \ {0} /\ BlocksPerSegment \in Nat \ {0} /\ BlockSize \in Nat \ {0}
  /\ FileCapacity \in Nat \ {0} /\ BitsPerLong \in Nat \ {0} /\ LongsPerBlock \in Nat \ {0}
  /\ DstPerBlock \in Nat \ {0} /\ RitPerBlock \in Nat \ {0} /\ StatPerBlock \in Nat \ {0}
  /\ NrGcPreserved \in Nat /\ NrJournalSegment \in Nat \ {0} /\ SuperBlocks \in Nat
  /\ BitBlocks \in Nat /\ BitBytes \in Nat /\ Level0Files \in Nat /\ MaxReloads \in Nat
  /\ Devices \subseteq Nat
BY LayoutAssumption

LEMMA TimesNat ==
  ASSUME NEW a \in Nat, NEW b \in Nat
  PROVE  a * b \in Nat
BY SMT

LEMMA TimesPositive ==
  ASSUME NEW a \in Nat \ {0}, NEW b \in Nat \ {0}
  PROVE  a * b \in Nat \ {0}
BY SMTT(60)

LEMMA SegmentPositive == SectorsPerSegment \in Nat \ {0}
BY ConstantsNat, TimesPositive DEF SectorsPerSegment

(* Every region has a natural number of blocks.                            *)
LEMMA RegionsNat ==
  ASSUME NEW n \in Nat
  PROVE  /\ NrBits(n) \in Nat
         /\ IndexRegionBlocks(n) \in Nat
         /\ JournalRegionBlocks \in Nat
         /\ SegValidityTableBlocks(n) \in Nat
         /\ DataSegTableBlocks(n) \in Nat
         /\ ReverseIndexTableBlocks(n) \in Nat
         /\ BitCatalogueBlocks(n) \in Nat
<1>1. n * BlocksPerSegment \in Nat
  BY ConstantsNat, TimesNat
<1>2. CeilDiv(n * BlocksPerSegment, FileCapacity) \in Nat
  BY <1>1, ConstantsNat, CeilDivNat
<1>3. NrBits(n) \in Nat
  <2>1. TotalBit(n * BlocksPerSegment) \in Nat
    BY <1>2, ConstantsNat DEF TotalBit
  <2> QED BY <2>1 DEF NrBits
<1>4. IndexRegionBlocks(n) \in Nat
  <2>1. NrBits(n) * BitBlocks \in Nat /\ NrBits(n) * BitBytes \in Nat
    BY <1>3, ConstantsNat, TimesNat
  <2>2. CeilDiv(NrBits(n) * BitBytes, BlockSize) \in Nat
    BY <2>1, ConstantsNat, CeilDivNat
  <2> QED BY <2>1, <2>2 DEF IndexRegionBlocks
<1>5. JournalRegionBlocks \in Nat
  BY ConstantsNat, TimesNat DEF JournalRegionBlocks
<1>6. SegValidityTableBlocks(n) \in Nat
  <2>1. CeilDiv(n, BitsPerLong) \in Nat
    BY ConstantsNat, CeilDivNat
  <2> QED BY <2>1, ConstantsNat, CeilDivNat DEF SegValidityTableBlocks
<1>7. DataSegTableBlocks(n) \in Nat
  BY ConstantsNat, DiskArrayBlocksNat DEF DataSegTableBlocks
<1>8. ReverseIndexTableBlocks(n) \in Nat
  BY <1>1, ConstantsNat, DiskArrayBlocksNat DEF ReverseIndexTableBlocks
<1>9. BitCatalogueBlocks(n) \in Nat
  BY ConstantsNat, DiskArrayBlocksNat DEF BitCatalogueBlocks
<1> QED BY <1>3, <1>4, <1>5, <1>6, <1>7, <1>8, <1>9

(* calc_metadata_blocks, which the constructor checks the device with, and *)
(* superblock_init, which lays it out, count the same blocks.              *)
THEOREM LayoutAgrees ==
  ASSUME NEW n \in Nat
  PROVE  DataStart(n) = CalcMetadataBlocks(n) /\ DataStart(n) \in Nat
<1> DEFINE b == NrBits(n)
<1>1. b \in Nat
  BY RegionsNat
<1>2. /\ IndexRegionBlocks(n) \in Nat /\ JournalRegionBlocks \in Nat
      /\ SegValidityTableBlocks(n) \in Nat /\ DataSegTableBlocks(n) \in Nat
      /\ ReverseIndexTableBlocks(n) \in Nat
  BY RegionsNat
<1>3. SegValidityTableBlocks(b) \in Nat /\ BitCatalogueBlocks(b) \in Nat
  BY <1>1, RegionsNat
<1> HIDE DEF b
<1>4. /\ DataStart(n) = BitcStart(n) + (SegValidityTableBlocks(b) + BitCatalogueBlocks(b)) * 2
      /\ CalcMetadataBlocks(n) = SuperBlocks + IndexRegionBlocks(n) + JournalRegionBlocks
           + SegValidityTableBlocks(n) * 2 + DataSegTableBlocks(n) * 2
           + ReverseIndexTableBlocks(n) * 2
           + SegValidityTableBlocks(b) * 2 + BitCatalogueBlocks(b) * 2
  BY DEF DataStart, CalcMetadataBlocks, NrCheckpointPacks, b
<1> QED
  BY <1>2, <1>3, <1>4, ConstantsNat
  DEF BitcStart, RitStart, DstStart, SvtStart, JournalStart, IndexStart, NrCheckpointPacks

(* What the constructor's check of a length means for the superblock.      *)
LEMMA FitsRoom ==
  ASSUME NEW len \in Nat, Fits(len), dev \in Nat
  PROVE  /\ len \div SectorsPerSegment + NrGcPreserved \in Nat
         /\ Room(len \div SectorsPerSegment + NrGcPreserved)
<1> DEFINE q == len \div SectorsPerSegment
           g == NrGcPreserved
           s == SectorsPerSegment
           m == CalcMetadataBlocks(q + g) * SectorsPerBlock
<1>1. s \in Nat \ {0} /\ g \in Nat
  BY SegmentPositive, ConstantsNat
<1>2. q \in Nat /\ s * q <= len
  BY SegmentPositive, DivNat
<1>3. m \in Nat
  BY <1>1, <1>2, LayoutAgrees, ConstantsNat, TimesNat
<1>4. m + len + g * s <= dev
  BY DEF Fits
<1>5. s * q \in Nat /\ g * s \in Nat
  BY <1>1, <1>2, TimesNat
<1>6. (q + g) * s = s * q + g * s
  BY <1>1, <1>2, SMT
<1> HIDE DEF q, s, m, g
<1>7. m + (q + g) * s <= dev
  BY <1>2, <1>3, <1>4, <1>5, <1>6
<1> QED BY <1>1, <1>2, <1>7 DEF Room, m, q, s, g

LEMMA LengthsNat ==
  ASSUME TypeOK, NEW len \in Lengths
  PROVE  len \in Nat
BY SegmentPositive DEF TypeOK, Lengths

LEMMA InitIInv == Init => IInv
BY ConstantsNat DEF Init, IInv, TypeOK, Pcs

(* The probe leaves everything but its own variables alone.                *)
LEMMA StepIInv == IInv /\ [Next]_vars => IInv'
<1> SUFFICES ASSUME IInv, [Next]_vars PROVE IInv'
  OBVIOUS
<1> USE DEF IInv
<1>d. dev \in Nat
  BY ConstantsNat DEF TypeOK
<1>1. CASE CalcAvail
  <2>1. NrGcPreserved * SectorsPerSegment \in Nat
    BY ConstantsNat, SegmentPositive, TimesNat
  <2>2. TypeOK'
    <3>1. CASE dev < NrGcPreserved * SectorsPerSegment
      BY <1>1, <3>1 DEF CalcAvail, probe, TypeOK, Pcs
    <3>2. CASE ~(dev < NrGcPreserved * SectorsPerSegment)
      <4>1. real' \in Nat
        BY <1>1, <3>2, <1>d, <2>1 DEF CalcAvail
      <4>2. real' \div 2 \in Nat
        BY <4>1, 2 \in Nat \ {0}, DivNat
      <4>3. (real' \div 2) \div SectorsPerSegment \in Nat
        BY <4>2, SegmentPositive, DivNat
      <4> QED BY <1>1, <3>2, <4>1, <4>3 DEF CalcAvail, TypeOK, Pcs
    <3> QED BY <3>1, <3>2
  <2> QED BY <1>1, <2>2 DEF CalcAvail, Room
<1>2. CASE Probe
  <2>1. TypeOK'
    <3>1. step * SectorsPerSegment \in Nat
      BY SegmentPositive, TimesNat DEF TypeOK
    <3>2. avail + step * SectorsPerSegment \in Nat /\ step \div 2 \in Nat
      BY <3>1 DEF TypeOK
    <3> QED BY <1>2, <3>2 DEF Probe, probe, TypeOK, Pcs
  <2> QED BY <1>2, <2>1 DEF Probe, Room
<1>3. ASSUME NEW len \in Lengths, Create(len) PROVE IInv'
  <2>1. len \in Nat
    BY LengthsNat
  <2>2. /\ len \div SectorsPerSegment + NrGcPreserved \in Nat
        /\ Room(len \div SectorsPerSegment + NrGcPreserved)
    BY <1>3, <2>1, <1>d, FitsRoom DEF Create
  <2>3. len \div SectorsPerSegment \in Nat
    BY <2>1, SegmentPositive, DivNat
  <2>4. TypeOK'
    BY <1>3, <2>2, <2>3 DEF Create, probe, TypeOK, Pcs, Tables
  <2> QED BY <1>3, <2>2, <2>4 DEF Create, Room
<1>4. ASSUME NEW len \in Lengths, Reject(len) \/ ReloadRefused(len) PROVE IInv'
  BY <1>4 DEF Reject, ReloadRefused, probe, TypeOK, Pcs, Room
<1>5. ASSUME NEW len \in Lengths, Reload(len) PROVE IInv'
  <2>1. len \div SectorsPerSegment \in Nat
    BY LengthsNat, SegmentPositive, DivNat
  <2>2. TypeOK'
    BY <1>5, <2>1, ConstantsNat DEF Reload, probe, TypeOK, Pcs
  <2> QED BY <1>5, <2>2 DEF Reload, Room
<1>6. CASE FormatTable
  <2>1. pc' \in Pcs
    BY <1>6 DEF FormatTable, FormatNext, Pcs, Tables
  <2> QED BY <1>6, <2>1 DEF FormatTable, probe, TypeOK, Room
<1>7. CASE WriteBack
  BY <1>7 DEF WriteBack, probe, TypeOK, Room
<1>8. CASE Close
  BY <1>8 DEF Close, probe, TypeOK, Pcs, Room
<1>9. CASE Crash
  BY <1>9 DEF Crash, probe, TypeOK, Pcs, Room
<1>10. CASE UNCHANGED vars
  BY <1>10 DEF vars, TypeOK, Room
<1> QED BY <1>1, <1>2, <1>3, <1>4, <1>5, <1>6, <1>7, <1>8, <1>9, <1>10 DEF Next

(* The data region that a superblock describes, in memory and after any    *)
(* crash, resize or reload, lies behind all metadata and inside the device.*)
THEOREM DataRegionInDevice == Spec => []DataInDevice
<1>1. IInv => DataInDevice
  <2> SUFFICES ASSUME IInv, sb # 0 PROVE DataInDevice
    BY DEF DataInDevice
  <2>1. DataStart(sb) = CalcMetadataBlocks(sb)
    BY LayoutAgrees DEF IInv, TypeOK
  <2> QED BY <2>1 DEF IInv, Room, DataInDevice
<1> QED BY <1>1, InitIInv, StepIInv, PTL DEF Spec

(* TypeOK for every device and every choice of sizes: what is assigned to  *)
(* real, avail and step in calc_avail_sectors never goes below zero.       *)
THEOREM LayoutTypes == Spec => []TypeOK
<1>1. IInv => TypeOK
  BY DEF IInv
<1> QED BY <1>1, InitIInv, StepIInv, PTL DEF Spec

-----------------------------------------------------------------------------
(* calc_avail_sectors.  Its loop compares with real - p as an unsigned     *)
(* number, so a probe beyond the device would be taken for one that fits;  *)
(* while avail has not passed real, no probe was.                          *)

ProbeInv ==
  /\ pc = "start" => avail = 0 /\ real = 0
  /\ pc \in {"probe", "avail"} /\ avail <= real =>
       /\ \E k \in Nat : avail = k * SectorsPerSegment
       /\ avail # 0 => Fits(avail)
       /\ pc = "probe" => dev = real + NrGcPreserved * SectorsPerSegment
       /\ pc = "avail" \/ step = 0 => ~Fits(avail + SectorsPerSegment)

LEMMA TimesMonotonic ==
  ASSUME NEW a \in Nat, NEW b \in Nat, NEW c \in Nat, a <= b
  PROVE  a * c <= b * c
BY SMTT(60)

LEMMA TimesMod ==
  ASSUME NEW k \in Nat, NEW s \in Nat \ {0}
  PROVE  (k * s) % s = 0
BY SMTT(60)

(* The journal region alone is longer than a segment.                      *)
LEMMA MetadataExceedsSegment ==
  ASSUME NEW n \in Nat
  PROVE  /\ CalcMetadataBlocks(n) * SectorsPerBlock \in Nat
         /\ CalcMetadataBlocks(n) * SectorsPerBlock > SectorsPerSegment
<1> DEFINE m == CalcMetadataBlocks(n)
           j == JournalRegionBlocks
<1>1. NrBits(n) \in Nat /\ BlocksPerSegment \in Nat \ {0} /\ SectorsPerBlock \in Nat \ {0}
  BY RegionsNat, ConstantsNat
<1>2. /\ IndexRegionBlocks(n) \in Nat /\ j \in Nat
      /\ SegValidityTableBlocks(n) \in Nat /\ DataSegTableBlocks(n) \in Nat
      /\ ReverseIndexTableBlocks(n) \in Nat
      /\ SegValidityTableBlocks(NrBits(n)) \in Nat /\ BitCatalogueBlocks(NrBits(n)) \in Nat
  BY <1>1, RegionsNat
<1>3. DataSegTableBlocks(n) >= 1
  BY ConstantsNat, DivNat DEF DataSegTableBlocks, DiskArrayBlocks
<1>4. j >= BlocksPerSegment
  <2>1. NrJournalSegment \in Nat /\ 1 <= NrJournalSegment /\ 1 \in Nat
    BY ConstantsNat
  <2>2. 1 * BlocksPerSegment <= NrJournalSegment * BlocksPerSegment
    BY <1>1, <2>1, TimesMonotonic
  <2> QED BY <1>1, <2>2 DEF JournalRegionBlocks
<1>5. m \in Nat /\ m >= BlocksPerSegment + 1
  <2> HIDE DEF j
  <2>1. m = SuperBlocks + IndexRegionBlocks(n) + j
           + SegValidityTableBlocks(n) * 2 + DataSegTableBlocks(n) * 2
           + ReverseIndexTableBlocks(n) * 2
           + SegValidityTableBlocks(NrBits(n)) * 2 + BitCatalogueBlocks(NrBits(n)) * 2
    BY DEF CalcMetadataBlocks, NrCheckpointPacks, j
  <2> QED BY <1>1, <1>2, <1>3, <1>4, <2>1, ConstantsNat
<1> HIDE DEF m
<1>6. m * SectorsPerBlock \in Nat /\ (BlocksPerSegment + 1) * SectorsPerBlock <= m * SectorsPerBlock
  BY <1>1, <1>5, TimesNat, TimesMonotonic
<1>7. (BlocksPerSegment + 1) * SectorsPerBlock = SectorsPerSegment + SectorsPerBlock
  BY <1>1, SMT DEF SectorsPerSegment
<1> QED BY <1>1, <1>6, <1>7, SegmentPositive DEF m

(* A length that leaves no room for a segment of metadata does not fit.    *)
LEMMA TooLong ==
  ASSUME NEW len \in Nat, dev \in Nat, NEW r \in Nat,
         dev <= r + NrGcPreserved * SectorsPerSegment, r <= len + SectorsPerSegment
  PROVE  ~Fits(len)
<1> DEFINE n == len \div SectorsPerSegment + NrGcPreserved
           m == CalcMetadataBlocks(n) * SectorsPerBlock
           g == NrGcPreserved * SectorsPerSegment
<1>1. n \in Nat /\ g \in Nat /\ SectorsPerSegment \in Nat
  BY SegmentPositive, ConstantsNat, DivNat, TimesNat
<1>2. m \in Nat /\ m > SectorsPerSegment
  BY <1>1, MetadataExceedsSegment
<1>3. Fits(len) <=> m + len + g <= dev
  BY DEF Fits
<1> HIDE DEF n, m, g
<1>4. dev <= r + g
  BY DEF g
<1> QED BY <1>1, <1>2, <1>3, <1>4

LEMMA StepProbe == IInv /\ ProbeInv /\ [Next]_vars => ProbeInv'
<1> SUFFICES ASSUME IInv, ProbeInv, [Next]_vars PROVE ProbeInv'
  OBVIOUS
<1> DEFINE s == SectorsPerSegment
           g == NrGcPreserved * SectorsPerSegment
<1>0. s \in Nat \ {0} /\ g \in Nat /\ dev \in Nat /\ avail \in Nat /\ real \in Nat /\ step \in Nat
  BY SegmentPositive, ConstantsNat, TimesNat DEF IInv, TypeOK
<1>1. CASE CalcAvail
  <2>0. avail = 0 /\ real = 0 /\ dev' = dev /\ (\E k \in Nat : 0 = k * s)
    <3>1. 0 = 0 * s
      BY <1>0
    <3> QED BY <1>1, <3>1 DEF CalcAvail, ProbeInv
  <2>1. CASE dev < g
    <3>1. pc' = "avail" /\ avail' = 0 /\ real' = 0
      BY <1>1, <2>0, <2>1 DEF CalcAvail, probe
    <3>2. ~Fits(s)
      BY <1>0, <2>1, TooLong, 0 \in Nat
    <3>3. ~Fits(0 + s)' /\ 0 + s = s
      BY <1>0, <2>0, <3>2 DEF Fits
    <3> QED BY <2>0, <3>1, <3>3 DEF ProbeInv
  <2>2. CASE ~(dev < g)
    <3>1. pc' = "probe" /\ avail' = 0 /\ real' = dev - g /\ step' = ((dev - g) \div 2) \div s
      BY <1>1, <2>2 DEF CalcAvail
    <3>2. dev - g \in Nat /\ dev = real' + g
      BY <1>0, <2>2, <3>1
    <3>3. ASSUME step' = 0 PROVE ~Fits(s)
      <4> DEFINE h == (dev - g) \div 2
      <4>1. h \in Nat /\ dev - g <= 2 * h + 1
        BY <3>2
      <4>2. h < s
        <5> HIDE DEF h
        <5>1. h \div s = 0
          BY <3>1, <3>3 DEF h
        <5> QED BY <1>0, <4>1, <5>1, SMTT(60)
      <4>3. dev - g <= s + s
        <5> HIDE DEF h
        <5> QED BY <1>0, <3>2, <4>1, <4>2
      <4>4. dev <= (dev - g) + g
        BY <1>0
      <4> QED BY <1>0, <3>2, <4>3, <4>4, TooLong
    <3>4. step' = 0 => ~Fits(0 + s)'
      <4>1. 0 + s = s
        BY <1>0
      <4> QED BY <2>0, <3>3, <4>1 DEF Fits
    <3> QED BY <2>0, <3>1, <3>2, <3>4 DEF ProbeInv
  <2> QED BY <2>1, <2>2
<1>2. CASE Probe
  <2> SUFFICES ASSUME avail' <= real'
               PROVE  /\ \E k \in Nat : avail' = k * s
                      /\ avail' # 0 => Fits(avail)'
                      /\ pc' = "probe" => dev' = real' + g
                      /\ pc' = "avail" \/ step' = 0 => ~Fits(avail + s)'
    BY <1>2 DEF ProbeInv, Probe
  <2> DEFINE p == avail + step * s
             m == CalcMetadataBlocks(p \div s + NrGcPreserved) * SectorsPerBlock
  <2>1. pc = "probe" /\ dev' = dev /\ real' = real
    BY <1>2 DEF Probe, probe
  <2>2. step * s \in Nat /\ p \in Nat /\ avail <= p
    BY <1>0, TimesNat
  <2>3. avail <= real
    <3>1. avail' = avail \/ avail' = p
      BY <1>2 DEF Probe, probe
    <3> HIDE DEF p
    <3> QED BY <1>0, <2>1, <2>2, <3>1
  <2>4. PICK k \in Nat : avail = k * s
    BY <2>1, <2>3 DEF ProbeInv
  <2>5. /\ avail # 0 => Fits(avail)
        /\ dev = real + g
        /\ step = 0 => ~Fits(avail + s)
    BY <2>1, <2>3 DEF ProbeInv
  <2>6. (Fits(avail)' <=> Fits(avail')) /\ (Fits(avail + s)' <=> Fits(avail' + s))
    BY <2>1 DEF Fits
  <2>7. Fits(p) <=> m + p + g <= dev
    BY DEF Fits
  <2>8. m \in Nat
    <3>1. p \div s + NrGcPreserved \in Nat
      BY <1>0, <2>2, ConstantsNat, DivNat
    <3> QED BY <3>1, MetadataExceedsSegment
  <2>9. CASE avail < real /\ step # 0 /\ (m <= real - p \/ p > real)
    <3>1. avail' = p /\ step' = step /\ pc' = pc
      BY <1>2, <2>9 DEF Probe
    <3>2. p = (k + step) * s
      BY <1>0, <2>4, SMT
    <3>3. k + step \in Nat
      BY <1>0
    <3> HIDE DEF p, m
    <3>4. m + p + g <= dev
      BY <1>0, <2>1, <2>2, <2>5, <2>8, <2>9, <3>1
    <3> QED BY <2>1, <2>5, <2>6, <2>7, <2>9, <3>1, <3>2, <3>3, <3>4
  <2>10. CASE avail < real /\ step # 0 /\ ~(m <= real - p \/ p > real)
    <3>1. avail' = avail /\ step' = step \div 2 /\ pc' = pc
      BY <1>2, <2>10 DEF Probe
    <3>2. ASSUME step' = 0 PROVE ~Fits(avail + s)
      <4>1. step = 1
        BY <1>0, <2>10, <3>1, <3>2
      <4>2. p = avail + s
        BY <1>0, <4>1
      <4> HIDE DEF p, m
      <4>3. ~(m + p + g <= dev)
        BY <1>0, <2>2, <2>5, <2>8, <2>10
      <4> QED BY <2>7, <4>2, <4>3
    <3> QED BY <2>1, <2>4, <2>5, <2>6, <3>1, <3>2
  <2>11. CASE ~(avail < real /\ step # 0)
    <3>1. avail' = avail /\ step' = step /\ pc' = "avail"
      BY <1>2, <2>11 DEF Probe, probe
    <3>2. ~Fits(avail + s)
      <4>1. CASE step = 0
        BY <2>5, <4>1
      <4>2. CASE step # 0
        <5>1. avail = real
          BY <1>0, <2>3, <2>11, <4>2
        <5>2. dev <= avail + g /\ avail <= (avail + s) + s /\ avail + s \in Nat
          BY <1>0, <2>5, <5>1
        <5> QED BY <1>0, <5>2, TooLong
      <4> QED BY <4>1, <4>2
    <3> QED BY <2>1, <2>4, <2>5, <2>6, <3>1, <3>2
  <2> QED BY <2>9, <2>10, <2>11
<1>3. ASSUME NEW len \in Lengths,
             Create(len) \/ Reject(len) \/ Reload(len) \/ ReloadRefused(len)
      PROVE  ProbeInv'
  BY <1>3 DEF Create, Reject, Reload, ReloadRefused, ProbeInv
<1>4. CASE FormatTable
  BY <1>4 DEF FormatTable, FormatNext, Tables, ProbeInv
<1>5. CASE WriteBack \/ Close \/ Crash
  BY <1>5 DEF WriteBack, Close, Crash, Tables, ProbeInv
<1>6. CASE UNCHANGED vars
  BY <1>6 DEF vars, ProbeInv, Fits
<1> QED BY <1>1, <1>2, <1>3, <1>4, <1>5, <1>6 DEF Next

(* What calc_avail_sectors returns is a whole number of segments, a length *)
(* that the constructor accepts, and the largest one, for every device and *)
(* every geometry, unless a probe went past the end of the device, where   *)
(* the unsigned subtraction wraps and the probe counts as a fit.           *)
THEOREM AvailMaximum == Spec => [](avail <= real => AvailIsMaximum)
<1>1. Init => ProbeInv
  BY DEF Init, ProbeInv
<1>2. IInv /\ ProbeInv => (avail <= real => AvailIsMaximum)
  <2> SUFFICES ASSUME IInv, ProbeInv, avail <= real, pc = "avail"
               PROVE  /\ avail % SectorsPerSegment = 0
                      /\ avail # 0 => Fits(avail)
                      /\ ~Fits(avail + SectorsPerSegment)
    BY DEF AvailIsMaximum
  <2>1. PICK k \in Nat : avail = k * SectorsPerSegment
    BY DEF ProbeInv
  <2>2. avail % SectorsPerSegment = 0
    BY <2>1, TimesMod, SegmentPositive
  <2> QED BY <2>2 DEF ProbeInv
<1> QED BY <1>1, <1>2, InitIInv, StepIInv, StepProbe, PTL DEF Spec

-----------------------------------------------------------------------------
(* metadata_format writes the tables in this order, which is not the order *)
(* they lie in: the DST comes before the RIT on the device.                *)
Order == <<"svt", "rit", "dst", "bvt", "stat">>
Pos == [svt |-> 1, rit |-> 2, dst |-> 3, bvt |-> 4, stat |-> 5]

Format == [tab : Tables \cup {"none"}, first : Int, last : Int, durable : BOOLEAN]

(* The first k tables are formatted, in the copies that w selects.         *)
Formatted(n, k, w) ==
  /\ Len(formats) = k
  /\ \A i \in 1 .. k :
       /\ formats[i].tab = Order[i]
       /\ formats[i].first = CopyStart(Order[i], n, w[Order[i]])
       /\ formats[i].last = formats[i].first + FormatBlocks(Order[i], n) - 1

Selections == [Tables -> {0, 1}]

FormatInv ==
  /\ formats \in Seq(Format)
  /\ torn \in BOOLEAN
  /\ pc \in {"start", "probe", "avail"} => disk = 0
  /\ pc \in Tables \cup {"up"} => disk \in {0, sb}
  /\ ~torn => /\ pc \in Tables => Formatted(sb, Pos[pc] - 1, vf)
              /\ pc = "up" => \E w \in Selections : Formatted(sb, 5, w)
              /\ pc = "down" /\ disk # 0 => \E w \in Selections : Formatted(disk, 5, w)

LEMMA OrderFacts ==
  /\ \A t \in Tables : Pos[t] \in 1 .. 5 /\ Order[Pos[t]] = t
  /\ \A i \in 1 .. 5 : Order[i] \in Tables /\ Pos[Order[i]] = i
BY DEF Tables, Pos, Order

LEMMA DivMonotonic ==
  ASSUME NEW a \in Nat, NEW b \in Nat \ {0}
  PROVE  a \div b <= (a + 1) \div b
BY SMTT(60)

(* The blocks of disk_array_format cover the table's copy.                 *)
LEMMA FormatCovers ==
  ASSUME NEW t \in Tables, NEW n \in Nat
  PROVE  /\ BlkCount(t, n) \in Nat /\ FormatBlocks(t, n) \in Nat
         /\ BlkCount(t, n) <= FormatBlocks(t, n)
<1>1. NrBits(n) \in Nat
  BY RegionsNat
<1>2. BlkCount(t, n) \in Nat
  BY <1>1, RegionsNat DEF BlkCount, Tables
<1>3. ASSUME NEW a \in Nat, NEW b \in Nat \ {0} PROVE CeilDiv(a, b) <= DiskArrayBlocks(a, b)
  <2>1. CASE a = 0
    <3>1. DiskArrayBlocks(a, b) \in Nat
      BY DiskArrayBlocksNat
    <3> QED BY <2>1, <3>1 DEF CeilDiv
  <2>2. CASE a # 0
    <3>1. a - 1 \in Nat /\ (a - 1) + 1 = a
      BY <2>2
    <3>2. (a - 1) \div b <= a \div b
      BY <3>1, DivMonotonic
    <3>3. (a - 1) \div b \in Nat /\ a \div b \in Nat
      BY <3>1, DivNat
    <3> QED BY <2>2, <3>2, <3>3 DEF CeilDiv, DiskArrayBlocks
  <2> QED BY <2>1, <2>2
<1>4. ASSUME NEW x \in Nat
      PROVE  /\ SegValidityTableBlocks(x) <= DiskArrayBlocks(CeilDiv(x, BitsPerLong), LongsPerBlock)
             /\ DiskArrayBlocks(CeilDiv(x, BitsPerLong), LongsPerBlock) \in Nat
  <2>1. CeilDiv(x, BitsPerLong) \in Nat
    BY ConstantsNat, CeilDivNat
  <2> QED BY <1>3, <2>1, ConstantsNat, DiskArrayBlocksNat DEF SegValidityTableBlocks
<1>5. CASE t = "svt"
  BY <1>2, <1>4, <1>5 DEF FormatBlocks, BlkCount
<1>6. CASE t = "bvt"
  BY <1>1, <1>2, <1>4, <1>6 DEF FormatBlocks, BlkCount
<1>7. CASE t \notin {"svt", "bvt"}
  BY <1>2, <1>7 DEF FormatBlocks
<1> QED BY <1>5, <1>6, <1>7

(* Where each pair of copies starts: behind the one before it.             *)
LEMMA TablesInOrder ==
  ASSUME NEW n \in Nat
  PROVE  /\ \A t \in Tables : TabStart(t, n) \in Nat
         /\ TabStart("dst", n) = TabStart("svt", n) + 2 * BlkCount("svt", n)
         /\ TabStart("rit", n) = TabStart("dst", n) + 2 * BlkCount("dst", n)
         /\ TabStart("bvt", n) = TabStart("rit", n) + 2 * BlkCount("rit", n)
         /\ TabStart("stat", n) = TabStart("bvt", n) + 2 * BlkCount("bvt", n)
<1>1. \A t \in Tables : BlkCount(t, n) \in Nat
  BY FormatCovers
<1>2. SvtStart(n) \in Nat
  <2>1. IndexRegionBlocks(n) \in Nat /\ JournalRegionBlocks \in Nat /\ SuperBlocks \in Nat
    BY RegionsNat, ConstantsNat
  <2> QED BY <2>1 DEF SvtStart, JournalStart, IndexStart
<1>3. /\ TabStart("svt", n) = SvtStart(n)
      /\ TabStart("dst", n) = SvtStart(n) + BlkCount("svt", n) * 2
      /\ TabStart("rit", n) = TabStart("dst", n) + BlkCount("dst", n) * 2
      /\ TabStart("bvt", n) = TabStart("rit", n) + BlkCount("rit", n) * 2
      /\ TabStart("stat", n) = TabStart("bvt", n) + BlkCount("bvt", n) * 2
  BY DEF TabStart, BlkCount, DstStart, RitStart, BitcStart, NrCheckpointPacks
<1> QED BY <1>1, <1>2, <1>3 DEF Tables

(* A table formatted later than t writes no block of either copy of t.     *)
LEMMA LaterDisjoint ==
  ASSUME NEW n \in Nat, NEW t \in Tables, NEW u \in Tables, Pos[u] > Pos[t],
         NEW c \in {0, 1}, NEW d \in {0, 1}
  PROVE  \/ CopyStart(u, n, d) > CopyStart(t, n, c) + BlkCount(t, n) - 1
         \/ CopyStart(u, n, d) + FormatBlocks(u, n) - 1 < CopyStart(t, n, c)
<1>1. \A x \in Tables : BlkCount(x, n) \in Nat /\ TabStart(x, n) \in Nat
  BY FormatCovers, TablesInOrder
<1>2. CopyStart(u, n, d) >= TabStart(u, n) /\ CopyStart(u, n, d) \in Nat
  <2>1. d * BlkCount(u, n) = 0 \/ d * BlkCount(u, n) = BlkCount(u, n)
    BY <1>1
  <2> QED BY <1>1, <2>1 DEF CopyStart
<1>3. /\ CopyStart(t, n, c) + BlkCount(t, n) <= TabStart(t, n) + 2 * BlkCount(t, n)
      /\ CopyStart(t, n, c) >= TabStart(t, n) /\ CopyStart(t, n, c) \in Nat
  <2>1. c * BlkCount(t, n) = 0 \/ c * BlkCount(t, n) = BlkCount(t, n)
    BY <1>1
  <2> QED BY <1>1, <2>1 DEF CopyStart
<1>4. CASE t = "rit" /\ u = "dst"
  <2>1. FormatBlocks(u, n) = BlkCount(u, n)
    BY <1>4 DEF FormatBlocks
  <2>2. CopyStart(u, n, d) + BlkCount(u, n) <= TabStart(u, n) + 2 * BlkCount(u, n)
    <3>1. d * BlkCount(u, n) = 0 \/ d * BlkCount(u, n) = BlkCount(u, n)
      BY <1>1
    <3> QED BY <1>1, <3>1 DEF CopyStart
  <2>3. TabStart(t, n) = TabStart(u, n) + 2 * BlkCount(u, n)
    BY <1>4, TablesInOrder
  <2> QED BY <1>1, <1>2, <1>3, <2>1, <2>2, <2>3
<1>5. CASE ~(t = "rit" /\ u = "dst")
  <2>1. TabStart(u, n) >= TabStart(t, n) + 2 * BlkCount(t, n)
    <3>1. \/ t = "svt" /\ u \in {"dst", "rit", "bvt", "stat"}
          \/ t = "rit" /\ u \in {"bvt", "stat"}
          \/ t = "dst" /\ u \in {"bvt", "stat"}
          \/ t = "bvt" /\ u = "stat"
      BY <1>5 DEF Tables, Pos
    <3>2. {"svt", "dst", "rit", "bvt", "stat"} = Tables
      BY DEF Tables
    <3> QED BY <1>1, <3>1, <3>2, TablesInOrder
  <2> QED BY <1>1, <1>2, <1>3, <2>1
<1> QED BY <1>4, <1>5

(* The formatted blocks are the same after the step.                       *)
SameFormats ==
  /\ Len(formats') = Len(formats)
  /\ \A i \in 1 .. Len(formats) :
       /\ formats'[i].tab = formats[i].tab
       /\ formats'[i].first = formats[i].first
       /\ formats'[i].last = formats[i].last

LEMMA KeepFormatted ==
  ASSUME SameFormats, NEW n, NEW k, NEW w, Formatted(n, k, w)
  PROVE  Formatted(n, k, w)'
BY DEF SameFormats, Formatted

(* A function on the domain of a sequence is a sequence as long.           *)
LEMMA SameDomain ==
  ASSUME NEW S, NEW T, NEW s \in Seq(S), NEW t, DOMAIN t = DOMAIN s,
         t = [i \in DOMAIN t |-> t[i]], \A i \in DOMAIN s : t[i] \in T
  PROVE  t \in Seq(T) /\ Len(t) = Len(s)
<1>1. Len(s) \in Nat /\ DOMAIN s = 1 .. Len(s)
  BY LenProperties
<1>2. t \in [1 .. Len(s) -> T]
  BY <1>1
<1>3. t \in Seq(T)
  BY <1>1, <1>2
<1> QED BY <1>1, <1>3

LEMMA StepFormat == IInv /\ FormatInv /\ [Next]_vars => FormatInv'
<1> SUFFICES ASSUME IInv, FormatInv, [Next]_vars PROVE FormatInv'
  OBVIOUS
<1> USE DEF Selections
<1>0. /\ formats \in Seq(Format) /\ vf \in Selections /\ sb \in Nat /\ disk \in Nat
      /\ Len(formats) \in Nat /\ DOMAIN formats = 1 .. Len(formats)
      /\ \A i \in 1 .. Len(formats) : formats[i] \in Format
  BY DEF FormatInv, IInv, TypeOK
<1>1. CASE CalcAvail \/ Probe
  BY <1>1 DEF CalcAvail, Probe, FormatInv, Tables, Formatted
<1>2. ASSUME NEW len \in Lengths, Create(len) PROVE FormatInv'
  <2>1. /\ formats' = <<>> /\ pc' = "svt" /\ disk' = 0 /\ torn' = torn
    BY <1>2 DEF Create, FormatInv
  <2>2. Formatted(sb, Pos[pc] - 1, vf)'
    BY <2>1 DEF Formatted, Pos
  <2> QED BY <2>1, <2>2 DEF FormatInv, Tables
<1>3. ASSUME NEW len \in Lengths, Reject(len) \/ ReloadRefused(len) PROVE FormatInv'
  BY <1>3 DEF Reject, ReloadRefused, FormatInv, Tables
<1>4. ASSUME NEW len \in Lengths, Reload(len) PROVE FormatInv'
  <2>1. /\ pc = "down" /\ pc' = "up" /\ disk # 0 /\ sb' = disk /\ disk' = disk
        /\ formats' = formats /\ torn' = torn
    BY <1>4 DEF Reload
  <2>2. ~torn' => \E w \in Selections : Formatted(sb, 5, w)'
    BY <2>1 DEF FormatInv, Formatted
  <2> QED BY <2>1, <2>2 DEF FormatInv, Tables
<1>5. CASE FormatTable
  <2> DEFINE new == [tab |-> pc, first |-> CopyStart(pc, sb, vf[pc]),
                     last |-> CopyStart(pc, sb, vf[pc]) + FormatBlocks(pc, sb) - 1,
                     durable |-> FALSE]
  <2>1. /\ pc \in Tables /\ formats' = Append(formats, new) /\ pc' = FormatNext[pc]
        /\ UNCHANGED <<sb, disk, vf, torn>>
    BY <1>5 DEF FormatTable
  <2>2. new \in Format
    <3>1. TabStart(pc, sb) \in Nat /\ BlkCount(pc, sb) \in Nat /\ FormatBlocks(pc, sb) \in Nat
      BY <1>0, <2>1, TablesInOrder, FormatCovers
    <3>2. vf[pc] * BlkCount(pc, sb) \in Nat
      BY <1>0, <2>1, <3>1, TimesNat
    <3>3. CopyStart(pc, sb, vf[pc]) \in Nat
      BY <3>1, <3>2 DEF CopyStart
    <3> QED BY <2>1, <3>1, <3>3 DEF Format
  <2>3. new.tab = pc /\ new.first = CopyStart(pc, sb, vf[pc])
        /\ new.last = new.first + FormatBlocks(pc, sb) - 1
    OBVIOUS
  <2> HIDE DEF new
  <2>4. /\ formats' \in Seq(Format) /\ Len(formats') = Len(formats) + 1
        /\ \A i \in 1 .. Len(formats) : formats'[i] = formats[i]
        /\ formats'[Len(formats) + 1] = new
    BY <1>0, <2>1, <2>2
  <2>5. ASSUME ~torn
        PROVE  /\ Len(formats') = Pos[pc]
               /\ \A i \in 1 .. Pos[pc] :
                    /\ formats'[i].tab = Order[i]
                    /\ formats'[i].first = CopyStart(Order[i], sb, vf[Order[i]])
                    /\ formats'[i].last = formats'[i].first + FormatBlocks(Order[i], sb) - 1
    <3>1. /\ Len(formats) = Pos[pc] - 1
          /\ \A i \in 1 .. Pos[pc] - 1 :
               /\ formats[i].tab = Order[i]
               /\ formats[i].first = CopyStart(Order[i], sb, vf[Order[i]])
               /\ formats[i].last = formats[i].first + FormatBlocks(Order[i], sb) - 1
      BY <2>1, <2>5 DEF FormatInv, Formatted
    <3>2. Pos[pc] \in 1 .. 5 /\ Order[Pos[pc]] = pc
      BY <2>1, OrderFacts
    <3>3. Len(formats) + 1 = Pos[pc]
      BY <3>1, <3>2
    <3> SUFFICES ASSUME NEW i \in 1 .. Pos[pc]
                 PROVE  /\ formats'[i].tab = Order[i]
                        /\ formats'[i].first = CopyStart(Order[i], sb, vf[Order[i]])
                        /\ formats'[i].last = formats'[i].first + FormatBlocks(Order[i], sb) - 1
      BY <2>4, <3>3
    <3>4. CASE i = Pos[pc]
      BY <2>3, <2>4, <3>2, <3>3, <3>4
    <3>5. CASE i # Pos[pc]
      <4>1. i \in 1 .. Pos[pc] - 1 /\ i \in 1 .. Len(formats)
        BY <3>1, <3>2, <3>5
      <4> QED BY <2>4, <3>1, <4>1
    <3> QED BY <3>4, <3>5
  <2>6. \/ pc' = "up" /\ Pos[pc] = 5
        \/ pc' \in Tables /\ Pos[pc'] - 1 = Pos[pc]
    BY <2>1 DEF FormatNext, Tables, Pos
  <2>7. ASSUME ~torn, pc' \in Tables PROVE Formatted(sb, Pos[pc] - 1, vf)'
    <3>1. Pos[pc'] - 1 = Pos[pc]
      BY <2>6, <2>7 DEF Tables
    <3> QED BY <2>1, <2>5, <2>7, <3>1 DEF Formatted
  <2>8. ASSUME ~torn, pc' = "up" PROVE \E w \in Selections : Formatted(sb, 5, w)'
    <3>1. Pos[pc] = 5
      BY <2>6, <2>8 DEF Tables
    <3> QED BY <1>0, <2>1, <2>5, <2>8, <3>1 DEF Formatted
  <2>9. pc' # "down" /\ pc' \notin {"start", "probe", "avail"}
    BY <2>6 DEF Tables
  <2> QED BY <2>1, <2>4, <2>7, <2>8, <2>9 DEF FormatInv
<1>6. CASE WriteBack
  <2>1. UNCHANGED <<pc, sb, vf, torn>> /\ pc \in Tables \cup {"up"} /\ disk' \in {disk, sb}
    BY <1>6 DEF WriteBack
  <2>2. formats' \in Seq(Format) /\ SameFormats
    <3>1. CASE formats' = formats
      BY <1>0, <3>1 DEF SameFormats
    <3>2. ASSUME NEW i \in DOMAIN formats, formats' = [formats EXCEPT ![i].durable = TRUE]
          PROVE  formats' \in Seq(Format) /\ SameFormats
      <4>1. [formats[i] EXCEPT !.durable = TRUE] \in Format
        BY <1>0 DEF Format
      <4>2. /\ [formats[i] EXCEPT !.durable = TRUE].tab = formats[i].tab
            /\ [formats[i] EXCEPT !.durable = TRUE].first = formats[i].first
            /\ [formats[i] EXCEPT !.durable = TRUE].last = formats[i].last
        BY <1>0 DEF Format
      <4> DEFINE e == [formats[i] EXCEPT !.durable = TRUE]
      <4>3. formats' = [formats EXCEPT ![i] = e]
        BY <3>2
      <4> HIDE DEF e
      <4>4. Len(formats') = Len(formats) /\ formats' \in Seq(Format)
        BY <1>0, <4>1, <4>3, ExceptSeq DEF e
      <4>5. \A j \in 1 .. Len(formats) : formats'[j] = IF j = i THEN e ELSE formats[j]
        BY <1>0, <4>3
      <4> QED BY <4>2, <4>4, <4>5 DEF SameFormats, e
    <3> QED BY <1>6, <3>1, <3>2 DEF WriteBack
  <2> QED BY <1>0, <2>1, <2>2, KeepFormatted DEF FormatInv, Tables
<1>7. CASE Close
  <2>1. /\ pc = "up" /\ pc' = "down" /\ disk' = sb /\ sb' = 0 /\ torn' = torn
        /\ formats' = [i \in DOMAIN formats |-> [formats[i] EXCEPT !.durable = TRUE]]
    BY <1>7 DEF Close
  <2>2. \A i \in 1 .. Len(formats) :
          /\ formats'[i] \in Format
          /\ formats'[i].tab = formats[i].tab
          /\ formats'[i].first = formats[i].first
          /\ formats'[i].last = formats[i].last
    BY <1>0, <2>1 DEF Format
  <2>3. formats' \in Seq(Format) /\ Len(formats') = Len(formats)
    BY <1>0, <2>1, <2>2, SameDomain
  <2>4. SameFormats
    BY <2>2, <2>3 DEF SameFormats
  <2>5. ASSUME ~torn PROVE \E w \in Selections : Formatted(disk, 5, w)'
    <3>1. PICK w \in Selections : Formatted(sb, 5, w)
      BY <2>1, <2>5 DEF FormatInv
    <3>2. Formatted(disk, 5, w)'
      BY <2>1, <2>4, <3>1 DEF SameFormats, Formatted
    <3> QED BY <3>2
  <2> QED BY <2>1, <2>3, <2>5 DEF FormatInv, Tables
<1>8. CASE Crash
  <2>1. /\ pc \in Tables \cup {"up"} /\ pc' = "down" /\ sb' = 0 /\ disk' = disk
        /\ torn' = (torn \/ pc # "up" \/ \E i \in DOMAIN formats : ~formats[i].durable)
        /\ formats' = [i \in DOMAIN formats |-> IF formats[i].durable THEN formats[i] ELSE Lost]
    BY <1>8 DEF Crash
  <2>2. Lost \in Format
    BY DEF Lost, Format
  <2>3. formats' \in Seq(Format) /\ Len(formats') = Len(formats)
    BY <1>0, <2>1, <2>2, SameDomain
  <2>4. torn' \in BOOLEAN
    BY <1>0, <2>1 DEF FormatInv, Format
  <2>5. ~torn' => SameFormats /\ ~torn /\ pc = "up"
    BY <1>0, <2>1, <2>3 DEF SameFormats
  <2>6. ASSUME ~torn', disk # 0 PROVE \E w \in Selections : Formatted(disk, 5, w)'
    <3>1. PICK w \in Selections : Formatted(sb, 5, w)
      BY <2>5, <2>6 DEF FormatInv
    <3>2. disk = sb
      BY <2>1, <2>6 DEF FormatInv
    <3>3. Formatted(disk, 5, w)'
      BY <2>1, <2>5, <2>6, <3>1, <3>2 DEF SameFormats, Formatted
    <3> QED BY <3>3
  <2> QED BY <2>1, <2>3, <2>4, <2>6 DEF FormatInv, Tables
<1>9. CASE UNCHANGED vars
  BY <1>9 DEF vars, FormatInv, Formatted
<1> QED BY <1>1, <1>2, <1>3, <1>4, <1>5, <1>6, <1>7, <1>8, <1>9 DEF Next

(* While the target is up and no crash has lost a part of the format, a    *)
(* table whose selected copy is the one metadata_format wrote was written  *)
(* whole, and no table formatted after it has overwritten a block of it,   *)
(* although the format of the SVT and of the BVT runs a block past the     *)
(* copy: for every geometry and device.                                    *)
THEOREM OwnFormat == Spec => []OwnFormatUnlessHazard
<1>1. ASSUME Init PROVE FormatInv
  <2>1. pc = "start" /\ disk = 0 /\ formats \in Seq(Format) /\ torn \in BOOLEAN
    BY <1>1, EmptySeq DEF Init
  <2> QED BY <2>1 DEF FormatInv, Tables
<1>2. IInv /\ FormatInv => OwnFormatUnlessHazard
  <2> SUFFICES ASSUME IInv, FormatInv, pc = "up", ~torn, NEW t \in Tables
               PROVE  LET first == CopyStart(t, sb, vf[t])
                          last == first + BlkCount(t, sb) - 1
                          mine == {i \in DOMAIN formats : formats[i].tab = t}
                      IN \/ \E i \in mine : formats[i].first # first
                         \/ /\ \E i \in mine : formats[i].first <= first /\ last <= formats[i].last
                            /\ \A i \in DOMAIN formats \ mine :
                                 formats[i].first <= last /\ first <= formats[i].last
                                 => \E j \in mine : j > i
    BY DEF OwnFormatUnlessHazard
  <2> DEFINE first == CopyStart(t, sb, vf[t])
             last == first + BlkCount(t, sb) - 1
             mine == {i \in DOMAIN formats : formats[i].tab = t}
  <2>0. sb \in Nat /\ vf \in Selections /\ formats \in Seq(Format)
    BY DEF IInv, TypeOK, FormatInv, Selections
  <2>1. PICK w \in Selections : Formatted(sb, 5, w)
    BY DEF FormatInv
  <2>2. DOMAIN formats = 1 .. 5 /\ \A i \in 1 .. 5 : formats[i] \in Format
    BY <2>0, <2>1, LenProperties DEF Formatted
  <2> DEFINE k == Pos[t]
  <2>3. k \in 1 .. 5 /\ Order[k] = t
    BY OrderFacts
  <2>4. k \in mine
    BY <2>1, <2>2, <2>3 DEF Formatted
  <2>5. /\ formats[k].last = formats[k].first + FormatBlocks(t, sb) - 1
        /\ BlkCount(t, sb) \in Nat /\ FormatBlocks(t, sb) \in Nat
        /\ BlkCount(t, sb) <= FormatBlocks(t, sb)
    BY <2>0, <2>1, <2>3, FormatCovers DEF Formatted
  <2> HIDE DEF k
  <2> SUFFICES ASSUME formats[k].first = first
               PROVE  /\ formats[k].first <= first /\ last <= formats[k].last
                      /\ \A i \in DOMAIN formats \ mine :
                           formats[i].first <= last /\ first <= formats[i].last => k > i
    BY <2>4
  <2>6. first \in Int
    BY <2>2, <2>3 DEF Format
  <2>7. formats[k].first <= first /\ last <= formats[k].last
    <3> HIDE DEF first
    <3> QED BY <2>5, <2>6
  <2>8. ASSUME NEW i \in DOMAIN formats, i > k
        PROVE  ~(formats[i].first <= last /\ first <= formats[i].last)
    <3> DEFINE u == Order[i]
    <3>1. u \in Tables /\ Pos[u] = i /\ i \in 1 .. 5
      BY <2>2, OrderFacts
    <3>2. /\ formats[i].first = CopyStart(u, sb, w[u])
          /\ formats[i].last = formats[i].first + FormatBlocks(u, sb) - 1
          /\ formats[i].first \in Int
      BY <2>1, <2>2, <3>1 DEF Formatted, Format
    <3>3. w[u] \in {0, 1} /\ vf[t] \in {0, 1}
      BY <2>0, <3>1 DEF Selections
    <3> HIDE DEF u
    <3>4. \/ CopyStart(u, sb, w[u]) > last
          \/ CopyStart(u, sb, w[u]) + FormatBlocks(u, sb) - 1 < first
      <4>1. Pos[u] > Pos[t]
        BY <2>8, <3>1 DEF k
      <4>2. ASSUME NEW c \in {0, 1}, NEW d \in {0, 1}
            PROVE  \/ CopyStart(u, sb, d) > CopyStart(t, sb, c) + BlkCount(t, sb) - 1
                   \/ CopyStart(u, sb, d) + FormatBlocks(u, sb) - 1 < CopyStart(t, sb, c)
        BY <2>0, <3>1, <4>1, LaterDisjoint
      <4> QED BY <3>3, <4>2
    <3>5. FormatBlocks(u, sb) \in Nat
      BY <2>0, <3>1, FormatCovers
    <3>6. last \in Int
      <4> HIDE DEF first
      <4> QED BY <2>5, <2>6
    <3> HIDE DEF first, last
    <3> QED BY <2>6, <3>2, <3>4, <3>5, <3>6
  <2>9. ASSUME NEW i \in DOMAIN formats \ mine PROVE i # k
    BY <2>4
  <2> QED BY <2>2, <2>3, <2>7, <2>8, <2>9
<1> QED BY <1>1, <1>2, InitIInv, StepIInv, StepFormat, PTL DEF Spec
=============================================================================
