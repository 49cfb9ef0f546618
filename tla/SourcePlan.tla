------------------------------ MODULE SourcePlan ------------------------------
(***************************************************************************)
(* Federated connections: src/src/layer3/connect.  connect({url, ...})     *)
(* resolves to a plan that builds table-function reads; databases() and    *)
(* tables() list what the source holds, and table('qualifier.object')      *)
(* reads one of them.                                                      *)
(*                                                                         *)
(* A name is the sequence of its dot-separated parts.  A table function is *)
(* [fn, args]; what it reaches is decided by its positional arguments as   *)
(* the engine takes them, described apart from the code that builds them.  *)
(***************************************************************************)
EXTENDS Integers, Sequences

CONSTANTS
    Databases,  \* databases of the server
    Schemas,    \* schemas of each of its databases, for a server that has them
    TableNames, \* names of its tables
    Users, Passwords,
    Unset       \* an option or a part of the url that was not given

\* Any name may hold dots; what is not given is none of them.
ASSUME SourceNamesAssumption ==
    /\ \A name \in Databases \cup Schemas \cup TableNames : name \in Seq(STRING) /\ name # <<>>
    /\ Unset \notin Databases \cup Schemas \cup Users \cup Passwords \cup {"key", "secret", "format"}

VARIABLES
    config,     \* the connect() options
    namespaces, \* what databases() returned
    listed,     \* <<namespace, table>> returned by tables(namespace)
    issued      \* the source of the last statement issued

sourceVars == <<config, namespaces, listed, issued>>

Or(a, b) == IF a # Unset THEN a ELSE b

-----------------------------------------------------------------------------
(* Schemes.                                                                *)

Servers ==
    { [type |-> "clickhouse", fn |-> "remote"], [type |-> "clickhouse", fn |-> "remoteSecure"],
      [type |-> "postgres", fn |-> "postgresql"], [type |-> "mysql", fn |-> "mysql"],
      [type |-> "mongodb", fn |-> "mongodb"] }

Credentialed == {"s3", "gcs", "iceberg", "deltaLake", "hudi"}
TakesFormat == {"file", "url", "s3", "gcs", "azureBlobStorage"}
Locations == { [type |-> f, fn |-> f] : f \in Credentialed \cup TakesFormat }

IsLocation(c) == c.spec \in Locations

\* secure: true turns remote() into remoteSecure().
Fn(c) == IF c.spec.fn = "remote" /\ c.secure THEN "remoteSecure" ELSE c.spec.fn

\* Options before the url, the service-role key before the anonymous key.
Username(c) == Or(c.username, c.urlUser)
Password(c) == Or(c.password, Or(c.serviceRoleKey, Or(c.anonKey, c.urlPassword)))
Database(c) == Or(c.database, c.path)

Call(fn, args) == [fn |-> fn, args |-> args]

\* What a builder that throws gives.
Refused == Call("refused", <<>>)

-----------------------------------------------------------------------------
(* The plan.                                                               *)

HasAuth(c) == Username(c) # Unset /\ Password(c) # Unset

RemoteArgs(c, db, object) ==
    <<"addr", db, object>> \o
        (IF Username(c) = Unset THEN <<>>
         ELSE IF Password(c) = Unset THEN <<Username(c)>> ELSE <<Username(c), Password(c)>>)

Remote(c, db, object) ==
    IF Password(c) # Unset /\ Username(c) = Unset THEN Refused ELSE Call(Fn(c), RemoteArgs(c, db, object))

\* Mutant of SplitName: the qualifier ends at the last dot.
SplitNameLast(name) ==
    IF Len(name) = 1 THEN <<Unset, name>> ELSE <<SubSeq(name, 1, Len(name) - 1), <<name[Len(name)]>> >>

\* The qualifier ends at the first dot; a bare name has none.
SplitName(name) == IF Len(name) = 1 THEN <<Unset, name>> ELSE << <<name[1]>>, Tail(name)>>

\* A credential pair goes in whole, and only to the functions that take one; then the format.
LocationArgs(c) ==
    <<"location">>
        \o (IF c.spec.fn \in Credentialed /\ c.accessKeyId # Unset THEN <<c.accessKeyId, c.secretAccessKey>>
            ELSE <<>>)
        \o (IF c.spec.fn \in TakesFormat /\ c.format # Unset THEN <<c.format>> ELSE <<>>)

Location(c) ==
    IF (c.accessKeyId = Unset) # (c.secretAccessKey = Unset) THEN Refused
    ELSE Call(c.spec.fn, LocationArgs(c))

\* table(name)
Table(c, name) ==
    LET qualifier == SplitName(name)[1]  object == SplitName(name)[2]
        db == Or(qualifier, Database(c))
    IN  IF IsLocation(c) THEN Location(c)
        ELSE IF c.spec.type = "clickhouse" THEN IF db = Unset THEN Refused ELSE Remote(c, db, object)
        ELSE IF ~HasAuth(c) THEN Refused
        ELSE IF c.spec.type = "postgres" THEN
            IF Database(c) = Unset THEN Refused
            ELSE LET schema == Or(qualifier, c.schema) IN
                 Call("postgresql", <<"addr", Database(c), object, Username(c), Password(c)>>
                                        \o (IF schema = Unset THEN <<>> ELSE <<schema>>))
        ELSE IF db = Unset THEN Refused
        ELSE Call(Fn(c), <<"addr", db, object, Username(c), Password(c)>>)

\* catalog('databases'), catalog('tables')
Catalog(c, relation) ==
    CASE c.spec.type = "clickhouse" -> Remote(c, <<"system">>, relation)
      [] c.spec.type = "postgres" ->
            IF Database(c) = Unset \/ ~HasAuth(c) THEN Refused
            ELSE Call("postgresql", <<"addr", Database(c), relation, Username(c), Password(c),
                                      <<"information_schema">> >>)
      [] c.spec.type = "mysql" ->
            IF ~HasAuth(c) THEN Refused
            ELSE Call("mysql", <<"addr", <<"information_schema">>, relation, Username(c), Password(c)>>)
      [] OTHER -> Refused

-----------------------------------------------------------------------------
(* The source, external: what a table function's arguments reach.          *)

\* postgresql(addr, database, table, user, password[, schema]), the others (addr, database, table, ...).
Reaches(call) ==
    IF call.fn = "postgresql"
      THEN [namespace |-> IF Len(call.args) > 5 THEN call.args[6] ELSE <<"public">>,
            within |-> call.args[2], object |-> call.args[3]]
      ELSE [namespace |-> call.args[2], within |-> Unset, object |-> call.args[3]]

Account(call) == SubSeq(call.args, 4, IF Len(call.args) < 5 THEN Len(call.args) ELSE 5)

\* A postgres catalog lists the schemas of the database it is read in.
Namespaces(call) == IF call.fn = "postgresql" THEN Schemas ELSE Databases

-----------------------------------------------------------------------------
(* A connection in use.                                                    *)

ServerOptions ==
    [spec : Servers, secure : BOOLEAN, username : {Unset} \cup Users, urlUser : {Unset} \cup Users,
     password : {Unset} \cup Passwords, serviceRoleKey : {Unset} \cup Passwords,
     anonKey : {Unset} \cup Passwords, urlPassword : {Unset} \cup Passwords,
     database : {Unset} \cup Databases, path : {Unset} \cup Databases, schema : {Unset} \cup Schemas]

LocationOptions ==
    [spec : Locations, secure : {FALSE}, accessKeyId : {Unset, "key"}, secretAccessKey : {Unset, "secret"},
     format : {Unset, "format"}]

SourceInit(configs) ==
    /\ config \in configs
    /\ namespaces = {} /\ listed = {} /\ issued = Refused

Issue(call) == issued' = call

ListDatabases ==
    /\ ~IsLocation(config) /\ Catalog(config, <<"databases">>) # Refused
    /\ Issue(Catalog(config, <<"databases">>))
    /\ namespaces' = Namespaces(Catalog(config, <<"databases">>))
    /\ UNCHANGED <<config, listed>>

ListTables(ns) ==
    /\ ~IsLocation(config) /\ Catalog(config, <<"tables">>) # Refused
    /\ Issue(Catalog(config, <<"tables">>))
    /\ listed' = listed \cup {<<ns, t>> : t \in TableNames}
    /\ UNCHANGED <<config, namespaces>>

\* describe(name), or the SELECT of snapshot(name); a location needs no name.
Read(name) ==
    /\ Table(config, name) # Refused
    /\ Issue(Table(config, name))
    /\ UNCHANGED <<config, namespaces, listed>>

SourceNext ==
    \/ ListDatabases
    \/ \E ns \in namespaces : ListTables(ns)
    \/ \E entry \in listed : Read(entry[1] \o entry[2])
    \/ \E t \in TableNames : Read(t)

SourceSpec == SourceInit(ServerOptions \cup LocationOptions) /\ [][SourceNext]_sourceVars

-----------------------------------------------------------------------------
(* How the engine takes a location's arguments, external: where both fit,  *)
(* a pair of credentials can only be told from a format by how many        *)
(* arguments there are; azureBlobStorage wants a container second.         *)

TakenAs(call) ==
    [credentials |-> call.fn \in Credentialed /\ Len(call.args) >= 3,
     format |-> call.fn \in TakesFormat \ {"azureBlobStorage"} /\ Len(call.args) \in {2, 4}]

\* The call reaches object in namespace, inside the database of the connection where there is one.
ReadsFrom(call, namespace, object) ==
    /\ call # Refused
    /\ Reaches(call).object = object /\ Reaches(call).namespace = namespace
    /\ Reaches(call).within # Unset => Reaches(call).within = Database(config)

DefaultNamespace ==
    IF config.spec.type = "postgres" THEN Or(config.schema, <<"public">>) ELSE Database(config)

\* Whether the account and the database came from fields or from the url: a table that databases() and
\* tables() list, in a namespace whose name holds no dot, can be read under its qualified name, however
\* dotted its own; the read goes with the account the listing was made with.  A name without a dot reaches
\* the default namespace, which is how a namespace with a dot in its name is read: splitName ends the
\* qualifier at the first dot.  The engine takes a location's credentials and format for what they are
\* (azureBlobStorage apart, which gets its format in the container's place).
FederatedNamesRoundTrip ==
    /\ \A entry \in listed :
          Len(entry[1]) = 1 =>
              /\ ReadsFrom(Table(config, entry[1] \o entry[2]), entry[1], entry[2])
              /\ Account(Table(config, entry[1] \o entry[2])) = Account(Catalog(config, <<"tables">>))
    /\ \A t \in TableNames :
          Len(t) = 1 /\ ~IsLocation(config) /\ Table(config, t) # Refused =>
              ReadsFrom(Table(config, t), DefaultNamespace, t)
    /\ IsLocation(config) /\ issued # Refused =>
          /\ TakenAs(issued).credentials <=> (config.accessKeyId # Unset /\ config.spec.fn \in Credentialed)
          /\ config.spec.fn # "azureBlobStorage" =>
                 (TakenAs(issued).format <=> (config.format # Unset /\ config.spec.fn \in TakesFormat))
=============================================================================
