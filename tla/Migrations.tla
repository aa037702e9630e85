----------------------------- MODULE Migrations -----------------------------
(* migrations/versions: what every revision adds to the registry schema. A   *)
(* revision that only alters columns or constraints adds nothing here.       *)
EXTENDS Naturals, Sequences, FiniteSets

Adds(t, r, f) == [tables |-> t, references |-> r, functions |-> f]

\* migrations/env.py: Alembic's own version table lives in the registry schema.
alembic_version == Adds({"alembic_version"}, {}, {})
registry_baseline == Adds({"schema_meta", "sources"}, {}, {})
sync_run_history == Adds({"sync_runs"}, {}, {})
netbox_sync_naming == Adds({}, {}, {})
source_operations == Adds({"source_operations"}, {}, {})
source_tombstones == Adds({"source_tombstones"}, {}, {"guard_source_credential_refs"})
auth_policy == Adds({"auth_state", "auth_audit"}, {}, {})
host_reservations == Adds({"host_reservations", "source_recoveries"}, {}, {})
registration_intents ==
    Adds({"registration_intents"}, {<<"registration_intents", "host_reservations">>}, {})
source_identity_proof == Adds({"source_identity_verifications"}, {}, {})
source_retirements == Adds({"source_retirements"}, {}, {})
registration_requests == Adds({}, {}, {})
run_reconciliation == Adds({"run_reconciliations"}, {}, {})
source_archives == Adds({"source_archives"}, {}, {})
source_purge ==
    Adds({}, {}, {"purge_retired_source", "source_assignment_allowed", "guard_run_source"})
registration_jobs == Adds({"registration_jobs"}, {}, {"purge_registration_job"})
removal_queue == Adds({"source_removal_requests"}, {<<"source_removal_requests", "sources">>},
                      {"guard_queued_run"})
calendar_schedule == Adds({}, {}, {})
reconciliation_code == Adds({}, {}, {})

Chain == <<registry_baseline, sync_run_history, netbox_sync_naming, source_operations,
           source_tombstones, auth_policy, host_reservations, registration_intents,
           source_identity_proof, source_retirements, registration_requests,
           run_reconciliation, source_archives, source_purge, registration_jobs,
           removal_queue, calendar_schedule, reconciliation_code>>
Revisions == DOMAIN Chain
SchemaTables == alembic_version.tables \cup UNION {Chain[i].tables : i \in Revisions}
SchemaReferences == UNION {Chain[i].references : i \in Revisions}
SchemaFunctions == UNION {Chain[i].functions : i \in Revisions}

\* pg_tables in the order of the names, as string_agg(... ORDER BY tablename) lists them.
SchemaListing ==
    <<"alembic_version", "auth_audit", "auth_state", "host_reservations", "registration_intents",
      "registration_jobs", "run_reconciliations", "schema_meta", "source_archives",
      "source_identity_verifications", "source_operations", "source_recoveries",
      "source_removal_requests", "source_retirements", "source_tombstones", "sources", "sync_runs">>
ASSUME ListingIsSchema ==
    /\ {SchemaListing[i] : i \in DOMAIN SchemaListing} = SchemaTables
    /\ Len(SchemaListing) = Cardinality(SchemaTables)

\* deploy/backup.py: the revisions and the tables the tool knows, in its own order.
ALEMBIC_CHAIN == 1..16
FOUNDATION_TABLES ==
    <<"alembic_version", "auth_audit", "auth_state", "host_reservations", "registration_intents",
      "registration_jobs", "source_removal_requests", "run_reconciliations", "schema_meta",
      "source_archives", "source_identity_verifications", "source_operations",
      "source_recoveries", "source_retirements", "source_tombstones", "sources", "sync_runs">>
CleanupFunctions == {"guard_source_credential_refs"}
=============================================================================
