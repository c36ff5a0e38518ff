------------------------------ MODULE ToolRegistry ------------------------------
(* TOOL_REGISTRATIONS (src/tools/registry.ts): every tool, and which of    *)
(* them read-only mode hides.                                              *)
EXTENDS ArrayTools, DockerTools, HostTools, ApiTools

AllTools == ArrayTable @@ DockerTable @@ HostTable @@ ApiTable

IsMutating ==
  {"array_action", "array_disk_action", "parity_check", "docker_autostart_set",
   "docker_container_action", "docker_container_remove", "docker_container_update",
   "vm_action", "notification_archive", "notification_unread", "notification_delete",
   "notification_create", "notification_recalculate", "plugin_add", "plugin_remove",
   "plugin_install_plg", "apikey_manage", "mover_action", "system_power", "disk_spin",
   "vm_snapshot_create", "user_script_run", "zfs_snapshot_action", "flash_backup",
   "service_action", "unassigned_action", "share_create", "share_edit",
   "share_delete", "shell_exec", "graphql_mutation"}
=============================================================================
