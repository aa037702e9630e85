---------------------------- MODULE MCDeployment ----------------------------
(* Deployment with the lists of tables and revisions of deploy/backup.py and *)
(* the schema that the migrations of the repository make.                    *)
EXTENDS Deployment, Migrations

CodeHead == Len(Chain)
CodeToolHead == Cardinality(ALEMBIC_CHAIN)
=============================================================================
