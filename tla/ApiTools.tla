-------------------------------- MODULE ApiTools --------------------------------
(* The handlers of src/tools/notification, plugin, apikey and graphql.      *)
EXTENDS ToolSteps

notification_overview == Reads(<<Query(Shows)>>)

notification_list == Reads(<<Query(Lists)>>)

notification_alerts == Reads(<<Query(Lists)>>)

(* The next four have no gate.                                             *)

notification_archive ==
  Mutates({Flow(0, <<Check("denied"), Request(<<>>)>>)})

notification_unread == Mutates({Flow(0, <<Mutation([ok |-> "done"])>>)})

(* if_unique may find an equivalent one.                                   *)
notification_create ==
  Mutates({Flow(0, <<Mutation([ok |-> "done", none |-> "noop"])>>)})

notification_recalculate == Mutates({Flow(0, <<Mutation([ok |-> "done"])>>)})

notification_delete ==
  Mutates({Flow(1, <<Gate(1), Check("denied"), Mutation([ok |-> "done"])>>)})

-----------------------------------------------------------------------------
plugin_list == Reads(<<Query(Shows)>>)

PackageNames == Check("denied")

plugin_add == Mutates({Flow(1, <<PackageNames, Gate(1), Request(<<>>)>>)})

plugin_remove == Mutates({Flow(1, <<PackageNames, Gate(1), Request(<<>>)>>)})

plugin_install_plg == Mutates({Flow(2, <<Check("denied"), Gate(2), Request(<<>>)>>)})

apikey_list == Reads(<<Query(Lists)>>)

ManageArguments == Check("denied")

ManageAction == Mutation([ok |-> "done"])

apikey_manage == Mutates({Flow(2, <<ManageArguments, Gate(2), ManageAction>>)})

-----------------------------------------------------------------------------
(* graphql: one operation of the right kind, valid against the schema.     *)

ParseSingleOperation == Check("failed")

ValidateAgainstSchema == Check("unsent")

DryRun == Step("check", [ok |-> "unsent"])

graphql_query ==
  [readOnly |-> TRUE,
   flows |-> {Flow(0, <<ParseSingleOperation, ValidateAgainstSchema, last>>)
                : last \in {DryRun, Query(Shows)}}]

(* A risky field asks for both flags, and then the common gate asks again. *)
RiskGate(risky) == IF risky THEN <<Gate(2)>> ELSE <<>>

graphql_mutation ==
  Mutates({Flow(IF risky THEN 2 ELSE 1,
                <<ParseSingleOperation, ValidateAgainstSchema>> \o rest)
             : <<risky, rest>> \in
                 {<<FALSE, <<DryRun>>>>}
                 \cup {<<r, RiskGate(r) \o <<Gate(1), Mutation([ok |-> "data"])>>>>
                         : r \in BOOLEAN}})

ApiTable ==
  [notification_overview |-> notification_overview,
   notification_list |-> notification_list,
   notification_alerts |-> notification_alerts,
   notification_archive |-> notification_archive,
   notification_unread |-> notification_unread,
   notification_create |-> notification_create,
   notification_recalculate |-> notification_recalculate,
   notification_delete |-> notification_delete,
   plugin_list |-> plugin_list, plugin_add |-> plugin_add,
   plugin_remove |-> plugin_remove, plugin_install_plg |-> plugin_install_plg,
   apikey_list |-> apikey_list, apikey_manage |-> apikey_manage,
   graphql_query |-> graphql_query, graphql_mutation |-> graphql_mutation]
=============================================================================
