---------------------------- MODULE MigrationList ----------------------------
(***************************************************************************)
(* The list BuildMigrations renders (internal/migrations/migrations.go),   *)
(* by what each migration does to the catalog: the objects its SQL         *)
(* creates and drops. Objects that come and stay together share a name.    *)
(* What depends on LISTEN/NOTIFY is in Renderings.                         *)
(* Rewriting a function's body (113) or pinning its search_path (20, 38,   *)
(* 105, 113) creates and drops nothing.                                    *)
(***************************************************************************)
EXTENDS Naturals

SharedMigrationBase == 100

(* The Go SDK's own history, then the versions every SDK shares.           *)
Versions == (1 .. 47) \cup (SharedMigrationBase .. 125)

(* CREATE/DROP INDEX CONCURRENTLY, which CockroachDB does not take.        *)
OnlineVersions(isCockroach) ==
  IF isCockroach THEN {}
  ELSE (22 .. 27) \cup (29 .. 32) \cup {34, 35, 37} \cup (45 .. 47)
       \cup {107, 111} \cup (114 .. 120) \cup {122, 124, 125}

(* Migrations whose CREATE or ADD COLUMN has no IF NOT EXISTS.             *)
StrictVersions == (1 .. 9) \cup (11 .. 19) \cup {21}

(* Indexes and constraints of migration 1 that a later migration drops.    *)
InitialSchema ==
  {"system_tables", "executor_id_index", "status_index", "queue_dedup_constraint",
   "operation_outputs_fk"}

AddsOf == [v \in Versions |->
  CASE v = 1   -> InitialSchema
    [] v = 2   -> {"queue_partition_key"}
    [] v = 3   -> {"queue_status_started_idx"}
    [] v = 4   -> {"forked_from", "forked_from_idx"}
    [] v = 5   -> {"step_timestamps"}
    [] v = 6   -> {"workflow_events_history"}
    [] v = 7   -> {"owner_xid"}
    [] v = 8   -> {"parent_workflow_id", "parent_workflow_id_idx"}
    [] v = 9   -> {"workflow_schedules"}
    [] v = 11  -> {"serialization"}
    [] v = 12  -> {"notifications_consumed", "notifications_idx"}
    [] v = 13  -> {"application_versions"}
    [] v = 14  -> {"enqueue_workflow_v14", "send_message"}
    [] v = 15  -> {"schedule_columns"}
    [] v = 16  -> {"delay_until"}
    [] v = 17  -> {"schedule_queue_name"}
    [] v = 18  -> {"was_forked_from"}
    [] v = 19  -> {"outputs_completed_at_idx"}
    [] v = 21  -> {"queues"}
    [] v = 23  -> {"forked_from_idx"}
    [] v = 25  -> {"parent_workflow_id_idx"}
    [] v = 27  -> {"dedup_id_idx"}
    [] v = 29  -> {"pending_idx"}
    [] v = 30  -> {"failed_idx"}
    [] v = 32  -> {"in_flight_idx"}
    [] v = 33  -> {"rate_limited"}
    [] v = 34  -> {"rate_limited_idx"}
    [] v = 36  -> {"completed_at"}
    [] v = 37  -> {"started_at_idx"}
    [] v = 38  -> {"enqueue_workflow_v38"}
    [] v = 40  -> {"attributes"}
    [] v = 41  -> {"schedule_name"}
    [] v = 42  -> {"debounce_columns"}
    [] v = 45  -> {"partition_dequeue_idx"}
    [] v = 46  -> {"partition_dequeue_idx_v2"}
    [] v = 100 -> {"workflow_status_application_name"}
    [] v = 101 -> {"queues_application_name"}
    [] v = 102 -> {"workflow_schedules_application_name"}
    [] v = 103 -> {"application_versions_application_name"}
    [] v = 104 -> {"operation_outputs_application_name"}
    [] v = 105 -> {"enqueue_workflow_v105"}
    [] v = 106 -> {"versions_owner_idx"}
    [] v = 107 -> {"versions_unclaimed_idx"}
    [] v = 108 -> {"queue_partition_limits"}
    [] v = 109 -> {"workflow_payload_tables"}
    [] v = 110 -> {"outputs_retention_timestamp"}
    [] v = 111 -> {"outputs_retention_idx"}
    [] v = 115 -> {"in_flight_idx_v2"}
    [] v = 117 -> {"partition_dequeue_idx_v3"}
    [] v = 119 -> {"outputs_completed_at_idx_v2"}
    [] v = 121 -> {"consumed_by_function_id"}
    [] v = 122 -> {"deadline_idx"}
    [] v = 123 -> {"creator_xid"}
    [] v = 124 -> {"versions_timestamp_idx"}
    [] v = 125 -> {"versions_owner_timestamp_idx"}
    [] OTHER   -> {}]

DropsOf == [v \in Versions |->
  CASE v = 22  -> {"forked_from_idx"}
    [] v = 24  -> {"parent_workflow_id_idx"}
    [] v = 26  -> {"executor_id_index"}
    [] v = 28  -> {"queue_dedup_constraint"}
    [] v = 31  -> {"status_index"}
    [] v = 35  -> {"queue_status_started_idx"}
    [] v = 38  -> {"enqueue_workflow_v14"}
    [] v = 47  -> {"partition_dequeue_idx"}
    [] v = 105 -> {"enqueue_workflow_v38"}
    [] v = 112 -> {"operation_outputs_fk"}
    [] v = 114 -> {"notifications_idx"}
    [] v = 116 -> {"in_flight_idx"}
    [] v = 118 -> {"partition_dequeue_idx_v2"}
    [] v = 120 -> {"outputs_completed_at_idx"}
    [] OTHER   -> {}]

LatestVersion == 125
=============================================================================
