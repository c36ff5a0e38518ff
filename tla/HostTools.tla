------------------------------- MODULE HostTools -------------------------------
(* The handlers of src/tools/mover, service, userscripts, shell, system,    *)
(* ups, log and metrics.                                                    *)
EXTENDS ToolSteps

mover_status == Reads(<<Query(Shows)>>)

mover_action ==
  Mutates({Flow(1, <<Shell, Gate(1), Submit([accepted |-> "requested"])>>)})

(* A service without a readable status is listed as unknown.               *)
service_list == Reads(<<Shell, Command(Shows @@ [exit |-> "data"])>>)

(* An unknown service, a stop never allowed, a stop without allow_stop.    *)
ServicePermits == Check("denied")

(* The script is there, it ran, and its status says what was wanted.       *)
RunVerb == <<Probe("denied"), Submit(<<>>), ReadBack>>

service_action ==
  Mutates({Flow(2, <<Shell, ServicePermits, Gate(2)>> \o RunVerb)})

user_script_list ==
  Reads(<<Shell, Command([ok |-> "data", none |-> "failed"])>>)

user_script_run ==
  Mutates({Flow(2, <<Shell, Check("denied"), Gate(2),
                     Execute([ok |-> "data", exit |-> "data"])>>)})

(* grep's exit code 1 with nothing on stderr is an answer.                 *)
file_read == Reads(<<Shell, Check("failed"), Command(Lists)>>)

shell_exec ==
  Mutates({Flow(1, <<Shell, Gate(1), Beat,
                     Execute([ok |-> "data", exit |-> "data"])>>)})

-----------------------------------------------------------------------------
system_info == Reads(<<Query(Shows)>>)

system_metrics == Reads(<<Query(Shows)>>)

(* readUps: without its UPS the report says so, and goes on.               *)
system_health == Reads(<<Query(<<>>), Query(Shows @@ [thrown |-> "data"])>>)

(* Every failure is a finding of the report.                               *)
connection_doctor ==
  Reads(<<Query([thrown |-> "next"]),
          Step("shell", [ok |-> "next", absent |-> "data"]),
          Command(Shows @@ [exit |-> "data", thrown |-> "data"])>>)

(* nvidia-smi if it is there, else intel_gpu_top: its exit code is not     *)
(* looked at, and a sample without data is called that.                    *)
HasCommand(answer) == Step("read", (answer :> "next") @@ [thrown |-> "failed"])

gpu_metrics ==
  [readOnly |-> TRUE,
   flows |-> {Flow(0, <<Shell, HasCommand("ok"), Command(Shows)>>),
              Flow(0, <<Shell, HasCommand("absent"), Probe("failed"),
                        Command(Shows @@ [exit |-> "data"])>>)}]

(* The exit code is that of head: a ps that failed leaves an empty list.   *)
process_list ==
  Reads(<<Shell, [Command(Lists @@ [psFailed |-> "nothing"])
                    EXCEPT !.unchecked = TRUE]>>)

(* Only the deadline of the exec phase is taken to say that the command    *)
(* was sent: a channel that is not opened reads as a connection that       *)
(* failed, although its request may have been sent by then.                *)
MapPowerError == [lost |-> "issued", unreached |-> "unsent", unopened |-> "unsent"]

system_power ==
  Mutates({Flow(2, <<Shell, Gate(2),
                     [Submit([accepted |-> "requested"] @@ MapPowerError)
                        EXCEPT !.unchecked = TRUE]>>)})

-----------------------------------------------------------------------------
(* apcaccess with empty output is an answer.                               *)
ups_status == Reads(<<Query([empty |-> "nothing"] @@ Lists)>>)

log_list == Reads(<<Query(Lists)>>)

(* Only a file of the API's own list is read.                              *)
log_read == Reads(<<Query([bad |-> "failed"]), Query(Shows)>>)

(* From memory: off, no sample yet, or a window (MetricsHistory).          *)
metrics_history == Reads(<<Check("data"), Step("check", [ok |-> "data"])>>)

HostTable ==
  [mover_status |-> mover_status, mover_action |-> mover_action,
   service_list |-> service_list, service_action |-> service_action,
   user_script_list |-> user_script_list, user_script_run |-> user_script_run,
   file_read |-> file_read, shell_exec |-> shell_exec,
   system_info |-> system_info, system_metrics |-> system_metrics,
   system_health |-> system_health, connection_doctor |-> connection_doctor,
   gpu_metrics |-> gpu_metrics, process_list |-> process_list,
   system_power |-> system_power, ups_status |-> ups_status,
   log_list |-> log_list, log_read |-> log_read,
   metrics_history |-> metrics_history]
=============================================================================
