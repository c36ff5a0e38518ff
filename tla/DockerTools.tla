------------------------------ MODULE DockerTools ------------------------------
(* The handlers of src/tools/docker and src/tools/vm.                       *)
EXTENDS ToolSteps

docker_container_list == Reads(<<Query(Lists)>>)

docker_network_list == Reads(<<Query(Lists)>>)

docker_port_conflicts == Reads(<<Query(Lists)>>)

(* The API returned no lines: docker logs over SSH, if there is a shell,   *)
(* is asked too, and whatever is wrong with it reads as no lines.          *)
FallbackOverSsh ==
  [Command(Lists @@ [exit |-> "nothing", thrown |-> "nothing"])
     EXCEPT !.unchecked = TRUE]

docker_container_logs ==
  Reads(<<Query([ok |-> "data"]),
          Step("shell", [ok |-> "next", absent |-> "nothing"]), FallbackOverSsh>>)

(* A fresh live sample needs no shell.                                     *)
docker_stats == Reads(<<Check("data"), Shell, Command(Lists)>>)

(* The API acts, then fails to read the container back.                    *)
ReadbackQuirk == [issued |-> "unverified"]

docker_container_action ==
  Mutates({Flow(1, <<Gate(1), Mutation([ok |-> "done"] @@ ReadbackQuirk)>>)})

docker_container_remove ==
  Mutates({Flow(1, <<Gate(1), Mutation([ok |-> "done", no |-> "noop"])>>)})

docker_container_update ==
  Mutates({Flow(1, <<Gate(1), Check("failed"),
                     Request([none |-> "noop"])>>)})

(* The merge of the set that is read and written is in ConfigWrites.       *)
docker_autostart_set ==
  Mutates({Flow(1, <<Gate(1), Query([bad |-> "denied"]),
                     Mutation([ok |-> "done", no |-> "noop"])>>)})

-----------------------------------------------------------------------------
vm_list == Reads(<<Query(Lists)>>)

UngracefulIsTier2(action) == IF action \in {"forceStop", "reset"} THEN 2 ELSE 1

(* No VM, or more than one, of that name.                                  *)
ResolveVm == Query([none |-> "failed"])

VmMutation == Mutation([ok |-> "done", no |-> "unverified"])

vm_action ==
  Mutates({Flow(UngracefulIsTier2(action),
                <<Gate(UngracefulIsTier2(action)), ResolveVm, VmMutation>>)
             : action \in {"start", "forceStop", "reset"}})

ProbeVirsh == Probe("failed")

vm_snapshot_list == Reads(<<Shell, ProbeVirsh, Command(Lists)>>)

vm_snapshot_create ==
  Mutates({Flow(2, <<Shell, Check("denied"), Gate(2), ProbeVirsh,
                     Execute([ok |-> "done"])>>)})

DockerTable ==
  [docker_container_list |-> docker_container_list,
   docker_network_list |-> docker_network_list,
   docker_port_conflicts |-> docker_port_conflicts,
   docker_container_logs |-> docker_container_logs, docker_stats |-> docker_stats,
   docker_container_action |-> docker_container_action,
   docker_container_remove |-> docker_container_remove,
   docker_container_update |-> docker_container_update,
   docker_autostart_set |-> docker_autostart_set,
   vm_list |-> vm_list, vm_action |-> vm_action,
   vm_snapshot_list |-> vm_snapshot_list, vm_snapshot_create |-> vm_snapshot_create]
=============================================================================
