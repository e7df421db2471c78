------------------------- MODULE MCBackupScheduler -------------------------
(***************************************************************************)
(* Small instances of BackupScheduler: two schedules of one VM.            *)
(***************************************************************************)
EXTENDS BackupScheduler, TLC

CONSTANTS s1, s2, t1, t2

TwoIds       == {s1, s2}
TwoThreads   == {t1, t2}
OneId        == {s1}
OneThread    == {t1}
OnePeriod    == {1}
TwoPeriods   == {1, 2}
KeepTwo      == {2}
KeepOneOrTwo == {1, 2}
Alike        == Permutations(TwoIds) \cup Permutations(TwoThreads)
RaceFaults   == {"load", "save"}
AllFaults    == {"load", "save", "virsh", "thread"}
=============================================================================
