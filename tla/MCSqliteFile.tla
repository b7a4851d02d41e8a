-------------------------- MODULE MCSqliteFile -------------------------
(* Instances of SqliteFile for TLC. *)
EXTENDS SqliteFile

OptionsOrDirect == SqliteSuites \ {SeaOrmSqlite}
PragmaOnPool == {SeaOrmSqlite}

=======================================================================
