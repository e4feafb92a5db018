-------------------------------- MODULE Mbr ---------------------------------
(***************************************************************************)
(* ValidMBR (lib/misc.c): the partition table of a disk, one partition     *)
(* compared with those behind it at a time.  LBAs have LbaBits bits.       *)
(***************************************************************************)
EXTENDS Integers, SequencesExt

CONSTANTS
  PartitionTables,      (* sequences of records                            *)
  LastBlocks,           (* of the device                                   *)
  MIN_MBR_DEVICE_SIZE, MBR_ERRATA_PAD,
  LbaBits

(* The fields of an entry have LbaBits bits.                               *)
ASSUME MbrAssumption ==
  /\ LbaBits \in Nat /\ 2^LbaBits \in Nat \ {0}
  /\ MIN_MBR_DEVICE_SIZE \in Nat /\ MBR_ERRATA_PAD \in Nat /\ LastBlocks \subseteq Nat
  /\ \A t \in PartitionTables :
       /\ Len(t) \in Nat /\ DOMAIN t = 1..Len(t)
       /\ \A j \in 1..Len(t) : /\ t[j].StartingLBA \in 0..(2^LbaBits - 1)
                               /\ t[j].SizeInLBA \in 0..(2^LbaBits - 1)

VARIABLES mbr, LastBlock, checked, ValidMbr, verdict

mbrVars == <<mbr, LastBlock, checked, ValidMbr, verdict>>

MbrInit ==
  /\ mbr \in PartitionTables /\ LastBlock \in LastBlocks
  /\ checked = 0 /\ ValidMbr = FALSE /\ verdict = "none"

Used(p) == p.OSIndicator # 0 /\ p.SizeInLBA # 0
EndingLBA(p) == (p.StartingLBA + p.SizeInLBA - 1) % 2^LbaBits

Within(lba, p) == lba >= p.StartingLBA /\ lba <= EndingLBA(p)

Overlaps_Start(p, later) == Within(later.StartingLBA, p)   \* mutation

(* The start or the end of a later partition is inside of this one.        *)
Overlaps(p, later) == Within(later.StartingLBA, p) \/ Within(EndingLBA(later), p)

(* A small device is believed, of others the size may be too small.        *)
OnDevice(p) ==
  \/ EndingLBA(p) <= LastBlock
  \/ LastBlock >= MIN_MBR_DEVICE_SIZE /\ EndingLBA(p) <= LastBlock + MBR_ERRATA_PAD

CheckPartition ==
  /\ verdict = "none" /\ checked < Len(mbr)
  /\ checked' = checked + 1
  /\ UNCHANGED <<mbr, LastBlock>>
  /\ LET p == mbr[checked + 1]
         behind == {j \in (checked + 2)..Len(mbr) : Used(mbr[j])}
     IN  \/ ~Used(p) /\ UNCHANGED <<ValidMbr, verdict>>
         \/ /\ Used(p) /\ ValidMbr' = TRUE
            /\ verdict' = IF OnDevice(p) /\ \A j \in behind : ~Overlaps(p, mbr[j])
                          THEN verdict ELSE "invalid"

MbrVerdict ==
  /\ verdict = "none" /\ checked = Len(mbr)
  /\ verdict' = IF ValidMbr THEN "valid" ELSE "invalid"
  /\ UNCHANGED <<mbr, LastBlock, checked, ValidMbr>>

MbrNext == CheckPartition \/ MbrVerdict

MbrSpec == MbrInit /\ [][MbrNext]_mbrVars

-----------------------------------------------------------------------------
Partitions == {j \in DOMAIN mbr : Used(mbr[j])}
Fits(p) == p.StartingLBA + p.SizeInLBA - 1 < 2^LbaBits
Sectors(p) == p.StartingLBA..(p.StartingLBA + p.SizeInLBA - 1)

(* Of a table that is accepted, and whose partitions end within the range  *)
(* of their numbers, no two partitions share a sector, but for a later     *)
(* one that encloses an earlier one: neither of its ends is inside then.   *)
PartitionsApart ==
  verdict = "valid" /\ (\A j \in Partitions : Fits(mbr[j])) =>
    /\ Partitions # {}
    /\ \A j, k \in Partitions :
         j < k => \/ Sectors(mbr[j]) \cap Sectors(mbr[k]) = {}
                  \/ Sectors(mbr[j]) \subseteq Sectors(mbr[k])

(* A table is refused only if it is empty, or two partitions share a       *)
(* sector, or one is behind the end of the device and of its errata; and   *)
(* a device that is small has no errata.                                   *)
RefusedForAReason ==
  verdict # "none" /\ (\A j \in Partitions : Fits(mbr[j])) =>
    LET limit == IF LastBlock < MIN_MBR_DEVICE_SIZE THEN LastBlock ELSE LastBlock + MBR_ERRATA_PAD
        onDevice == \A j \in Partitions : \A s \in Sectors(mbr[j]) : s <= limit
        apart == \A j, k \in Partitions :
                   j # k => Sectors(mbr[j]) \cap Sectors(mbr[k]) = {}
    IN  /\ verdict = "invalid" => Partitions = {} \/ ~onDevice \/ ~apart
        /\ verdict = "valid" => onDevice

(* The verdict of ValidMBR is the right one, but for a partition inside of *)
(* another.                                                                *)
VerdictSound ==
  /\ PartitionsApart
  /\ RefusedForAReason
=============================================================================
