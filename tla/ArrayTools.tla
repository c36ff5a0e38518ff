------------------------------ MODULE ArrayTools ------------------------------
(* The handlers of src/tools/array, disk, share, backup, unassigned, zfs.   *)
EXTENDS ToolSteps

(* array: API mutations that answer with the state before them.            *)

array_status == Reads(<<Query(Shows)>>)

parity_history == Reads(<<Query(Lists)>>)

StopIsTier2(action) == IF action = "stop" THEN 2 ELSE 1

ArrayErrors == [already |-> "noop", inFlight |-> "denied", issued |-> "issued"]

array_action ==
  Mutates({Flow(StopIsTier2(action),
                <<Gate(StopIsTier2(action)), Request(ArrayErrors)>>)
             : action \in {"start", "stop"}})

(* The state of the array, read after the gate; the mutation comes later.  *)
ArrayStatePermits == Query([bad |-> "denied"])

array_disk_action ==
  Mutates({Flow(2, <<Check("denied"), Check("denied"), Gate(2),
                     ArrayStatePermits, Request(<<>>)>>)})

ParityErrors == [invalid |-> "denied", issued |-> "issued"]

parity_check ==
  Mutates({Flow(1, <<Check("denied"), Gate(1), Request(ParityErrors)>>)})

-----------------------------------------------------------------------------
(* disk                                                                    *)

disk_list == Reads(<<Query(Lists)>>)

(* smartctl's exit code is a bitmask: any output is shown.                 *)
disk_smart_report ==
  Reads(<<Shell, Check("failed"), Probe("failed"),
          Command([ok |-> "data", exit |-> "data", none |-> "failed"])>>)

disk_spin ==
  Mutates({Flow(1, <<Shell, Check("denied"), Gate(1),
                     Submit([accepted |-> "requested"])>>)})

-----------------------------------------------------------------------------
(* share: the writes themselves are in ConfigWrites.                       *)

share_list == Reads(<<Query(Lists)>>)

(* The host's disks, pools and reserved names, then checkAgainstHost.      *)
HostAllows == Unchecked(Command([none |-> "next", bad |-> "denied"]))

(* A configuration that cannot be read is taken for one that is not there. *)
CfgExists == Unchecked(Command([none |-> "denied"]))

CfgAbsent == Unchecked(Command([ok |-> "denied", none |-> "next"]))

(* The form of the share, that of its SMB settings, and the read-back.     *)
ApplyAndVerify ==
  {<<Submit(<<>>)>> \o smb \o <<ReadBack>> : smb \in {<<>>, <<Submit(<<>>)>>}}

share_create ==
  Mutates({Flow(2, <<Shell, Check("denied"), Gate(2), CfgAbsent, HostAllows>> \o w)
             : w \in ApplyAndVerify})

share_edit ==
  Mutates({Flow(2, <<Shell, Check("denied"), Check("denied"), Gate(2),
                     CfgExists, HostAllows>> \o w) : w \in ApplyAndVerify})

(* find's exit code is ignored: what cannot be listed counts as empty.     *)
HoldsNoData == Unchecked(Command([ok |-> "denied", none |-> "next"]))

(* A read-back that fails, as if what it looks for were gone.              *)
GoneIfUnread == [ReadBack EXCEPT !.on["exit"] = "verified", !.unchecked = TRUE]

share_delete ==
  Mutates({Flow(2, <<Shell, Check("denied"), Gate(2), CfgExists, HoldsNoData,
                     Submit(<<>>), GoneIfUnread>>)})

-----------------------------------------------------------------------------
(* backup: what overlapping backups do to each other is in FlashBackup.    *)

(* GNU tar's exit code 1 is a warning, others are failures.                *)
TarEnds == Execute([warning |-> "next"])

PruneOlder == <<Command([none |-> "done", exit |-> "done"]),
                Execute([ok |-> "done", exit |-> "done"])>>

(* The status is that of wc and stat, so that nothing but tar's own says   *)
(* that the archive is whole.                                              *)
ListArchive(verdict) == Command([ok |-> verdict, none |-> "failed"])

flash_backup ==
  Mutates({Flow(2, <<Shell, Check("denied"), Gate(2), Beat, Probe("denied"),
                     TarEnds>> \o listed)
             : listed \in {<<ListArchive("done")>>,
                           <<ListArchive("next")>> \o PruneOlder}})

-----------------------------------------------------------------------------
(* unassigned: devices that belong to no array, pool or flash.             *)

(* disks.ini and then lsblk, both with their exit codes ignored.           *)
unassigned_list ==
  Reads(<<Shell, Unchecked(Command(<<>>)), Unchecked(Command(Lists))>>)

NotAssigned == Unchecked(Command([none |-> "next", bad |-> "denied"]))

(* lsblk, its exit code ignored: what it cannot tell reads as not mounted. *)
MountedAt(action) == IF action = "mount" THEN ReadBack ELSE GoneIfUnread

unassigned_action ==
  Mutates({Flow(2, <<Shell, Check("denied"), Gate(2), Probe("denied"),
                     NotAssigned, Submit(<<>>), MountedAt(action)>>)
             : action \in {"mount", "unmount"}})

-----------------------------------------------------------------------------
(* zfs                                                                     *)

ProbeZfs == Probe("failed")

zfs_dataset_list == Reads(<<Shell, Check("failed"), ProbeZfs, Command(Lists)>>)

zfs_snapshot_list == Reads(<<Shell, Check("failed"), ProbeZfs, Command(Lists)>>)

(* Without its statistics the summary says so.                             *)
zfs_status ==
  Reads(<<Shell, ProbeZfs, Command(<<>>), Command(Shows @@ [exit |-> "data"])>>)

zfs_snapshot_action ==
  Mutates({Flow(2, <<Shell, Check("denied"), Gate(2), ProbeZfs,
                     Execute([ok |-> "done"])>>)})

ArrayTable ==
  [array_status |-> array_status, parity_history |-> parity_history,
   array_action |-> array_action, array_disk_action |-> array_disk_action,
   parity_check |-> parity_check, disk_list |-> disk_list,
   disk_smart_report |-> disk_smart_report, disk_spin |-> disk_spin,
   share_list |-> share_list, share_create |-> share_create,
   share_edit |-> share_edit, share_delete |-> share_delete,
   flash_backup |-> flash_backup, unassigned_list |-> unassigned_list,
   unassigned_action |-> unassigned_action, zfs_dataset_list |-> zfs_dataset_list,
   zfs_snapshot_list |-> zfs_snapshot_list, zfs_status |-> zfs_status,
   zfs_snapshot_action |-> zfs_snapshot_action]
=============================================================================
