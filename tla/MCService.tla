------------------------------ MODULE MCService ------------------------------
(* Applications of the plugins' libraries and the requests of their        *)
(* clients, for TLC.                                                       *)
EXTENDS Service

Get(command, query) == [command |-> command, query |-> query, body |-> <<>>]
Post(command, query, body) ==
    [command |-> command, query |-> query, body |-> body]
JSON(type, text) == [json |-> type, text |-> text]

Named(suid, target, action) ==
    [suid |-> suid, target |-> target, action |-> action]
MCCreate(suid, target, action, rest) ==
    Get("create", Named(suid, target, action) @@ rest)
ByName(target, action) ==
    Get("destroy", [target |-> target, action |-> action])
ByUid(suid) == Get("destroy", [suid |-> suid])

MCCall(point, args, facts) ==
    [point |-> point, args |-> args, kw |-> <<>>, obj |-> <<>>,
     opaque |-> FALSE,
     facts |-> [k \in DOMAIN facts \cup {"method"} |->
                  IF k \in DOMAIN facts THEN facts[k]
                  ELSE {FunctionName[point]}]]

-----------------------------------------------------------------------------
(* Limits, jitter, and the ways to ask for a delay or a destroy.           *)
RedisApp ==
    [calls |-> << MCCall("Redis.execute_command", <<"GET", "user">>,
                         [cmd |-> {"GET"}, key |-> {"user"}]) >>,
     requests |->
       { Post("create", Named("u1", "redis", "delay"),
              ("time" :> JSON("number", "1")) @@ ("cmd" :> JSON("text", "get"))
              @@ ("effect-count" :> JSON("number", "1"))),
         MCCreate("u1", "redis", "delay",
                  ("time" :> "0") @@ ("offset" :> "1") @@ ("effect-percent" :> "50")),
         MCCreate("u2", "redis", "delay", ("time" :> "abc") @@ ("debug" :> "True")),
         MCCreate("u2", "redis", "delay", ("time" :> "9") @@ ("key" :> "user")),
         MCCreate("u2", "redis", "returnValue", "cmd-regex" :> "G.*"),
         MCCreate("u1", "redis", "delay", <<>>),
         Get("status", [suid |-> "u1"]), ByUid("u2"), ByName("redis", "delay") }]

(* Exceptions, names and aliases.                                          *)
HttpApp ==
    [calls |-> << MCCall("HTTPAdapter.send",
                         << [url |-> "http://h/p", host |-> "h", method |-> ""] >>,
                         [url |-> {"http://h/p"}, host |-> {"h"}]) >>,
     requests |->
       { MCCreate("u1", "http", "exception",
                  ("exception" :> "lib.Picky") @@ ("exception-message" :> "m")
                  @@ ("host" :> "H") @@ ("effect-count" :> "x")),
         MCCreate("u1", "http", "exception",
                  ("exception" :> ".Lost") @@ ("method" :> "SEND")),
         MCCreate("u2", "http", "throwCustomException",
                  ("exception" :> "ConnectError") @@ ("url" :> "http://h/p")),
         MCCreate("u2", "http", "throwCustomException", "method" :> "GET"),
         Post("create", Named("u2", "http", "exception"),
              "exception" :> JSON("null", "")),
         MCCreate("u3", "http", "nosuch", <<>>),
         ByName("http", "exception"), ByName("http", "throwCustomException"),
         Get("list", [action |-> "exception"]), Get("destroy", [target |-> "http"]) }]

(* A coroutine function, imported before or after the experiment.          *)
HttpxApp ==
    [calls |-> << MCCall("AsyncClient.send",
                         << [url |-> "http://h/p", host |-> "h", path |-> "/p",
                             method |-> "POST"] >>,
                         [url |-> {"http://h/p"}, host |-> {"h"},
                          path |-> {"/p"}, method |-> {"POST"}]) >>,
     requests |->
       { MCCreate("u1", "httpx", "return",
                  ("return-value" :> "{}") @@ ("method" :> "post")),
         Post("create", Named("u1", "httpx", "returnValue"),
              ("return-value" :> JSON("true", "")) @@ ("path" :> JSON("text", "/q"))),
         MCCreate("u2", "httpx", "exception", "exception" :> "IOError"),
         MCCreate("u2", "httpx", "delay", ("time" :> "1") @@ ("host" :> "h")),
         Get("health", <<>>), Get("nosuch", <<>>), ByUid("u1"), ByUid("u2") }]

(* A call of SQLAlchemy that calls a cursor of MySQL.                      *)
Statement == [text |-> "SELECT 1", word |-> "SELECT"]
SqlApp(opaque) ==
    [calls |->
       << [MCCall("Connection.execute", <<Statement>>,
                  [sql |-> {"SELECT 1"}, sqltype |-> {"SELECT"}, database |-> {"mysql"}])
           EXCEPT !.obj = [database |-> "mysql"], !.opaque = opaque],
          [MCCall("Cursor.execute", <<Statement>>,
                  [sql |-> {"SELECT 1"}, sqltype |-> {"SELECT"}, database |-> {"shop"}])
           EXCEPT !.obj = [database |-> "shop"]] >>,
     requests |->
       { MCCreate("u1", "sqlalchemy", "delay", ("time" :> "1") @@ ("sqltype" :> "select")),
         MCCreate("u1", "sqlalchemy", "returnValue", "database" :> "shop"),
         MCCreate("u2", "mysql", "exception",
                  ("database" :> "shop") @@ ("effect-count" :> "1")),
         MCCreate("u2", "mysql", "returnValue",
                  ("database" :> "mysql") @@ ("return-value" :> "1")),
         MCCreate("u2", "mysql", "returnValue", "return-value" :> "1.5"),
         ByUid("u1"), ByUid("u2"), Get("status", <<>>) }]

(* A cursor of PyMySQL that hands its statement on to one of MySQL         *)
(* Connector, on a class that refuses setattr.                             *)
DriverApp ==
    [calls |->
       << MCCall("Cursor.execute", <<Statement>>,
                 [sql |-> {"SELECT 1"}, sqltype |-> {"SELECT"}]),
          MCCall("MySQLCursor.execute", <<Statement>>,
                 [sql |-> {"SELECT 1"}, sqltype |-> {"SELECT"}]) >>,
     requests |->
       { MCCreate("u1", "mysql", "exception",
                  ("exception" :> "lib.Picky") @@ ("sqltype" :> "select")),
         MCCreate("u2", "mysql", "delay", "time" :> "1"),
         MCCreate("u1", "sqlalchemy", "delay", "time" :> "1"),
         ByUid("u1"), ByUid("u2") }]
MCFrozen == {"MySQLCursor.execute"}

KafkaApp ==
    [calls |->
       << [MCCall("KafkaProducer.send", <<>>,
                  [topic |-> {"t"}, operation |-> {"produce"}])
           EXCEPT !.kw = [topic |-> "t"]],
          [MCCall("KafkaConsumer.poll", <<>>,
                  [topic |-> {"t", "v", "topics,joined"}, operation |-> {"consume"}])
           EXCEPT !.obj = [topics |-> {"t", "v"}]] >>,
     requests |->
       { MCCreate("u1", "kafka", "returnValue", "topic" :> "T"),
         MCCreate("u1", "kafka", "return", "operation" :> "consume"),
         MCCreate("u2", "kafka", "delay", ("time" :> "1") @@ ("operation" :> "produce")),
         ByUid("u1"), Get("status", [suid |-> "u2"]), Get("list", <<>>) }]

GrpcApp ==
    [calls |->
       << [MCCall("_UnaryUnaryMultiCallable.__call__", <<>>,
                  [method |-> {"/S/M"}, service |-> {"S"}])
           EXCEPT !.obj = [path |-> "/S/M", service |-> "S"]] >>,
     requests |->
       { MCCreate("u1", "grpc", "returnValue", ("method" :> "__call__") @@ ("return-value" :> "TRUE")),
         MCCreate("u1", "grpc", "returnValue", ("service" :> "s") @@ ("return-value" :> "x")),
         Post("create", <<>>, [suid |-> JSON("text", ""), target |-> JSON("text", "grpc")]),
         MCCreate("u2", "nosuch", "delay", <<>>),
         MCCreate("u2", "grpc", "exception", "exception-message" :> "m"),
         ByUid("u2"), ByUid("u1") }]

MCApplications ==
    {RedisApp, HttpApp, HttpxApp, SqlApp(FALSE), SqlApp(TRUE), DriverApp,
     KafkaApp, GrpcApp}

-----------------------------------------------------------------------------
MCFolded ==
    ("GET" :> "get") @@ ("H" :> "h") @@ ("POST" :> "post") @@ ("S" :> "s")
    @@ ("SELECT" :> "select") @@ ("SEND" :> "send") @@ ("T" :> "t")
    @@ ("True" :> "true") @@ ("TRUE" :> "true") @@ ("None" :> "none")
    @@ ("/S/M" :> "/s/m")
MCIntOf == ("0" :> 0) @@ ("1" :> 1) @@ ("50" :> 50) @@ ("9" :> 9)
MCImportable == "lib.Picky" :> "lib.Picky"
=============================================================================
