---------------------------- MODULE MCMigrations ----------------------------
(* Every engine, a crash at every statement, and two rows of those that a   *)
(* migration or its revert has to do with.                                  *)
EXTENDS Migrations

MCEngines == {"sqlite", "postgres", "mysql"}
MCInserted ==
  { Row("credentials", "digest"), Row("calendar_objects", "VTODO"),
    Row("addressbook_changes", "file name"), Row("address_objects", "a UID"),
    Row("calendars", "any") }
=============================================================================
