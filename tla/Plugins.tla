------------------------------- MODULE Plugins -------------------------------
(***************************************************************************)
(* What the seven plugins declare (ModelSpec, point cuts) and which        *)
(* matchers their extractors read off an intercepted call (plugins).       *)
(*                                                                         *)
(* A call is a record: point, the function called; args, its positional    *)
(* arguments after self; kw, its keyword arguments; obj, what the          *)
(* extractor can read off self; opaque, whether reading an argument        *)
(* raises, as the str() of some SQL expressions does; facts, what is true  *)
(* of the call whether an extractor sees it or not.  "" is a missing or    *)
(* empty text.                                                             *)
(***************************************************************************)
EXTENDS Sequences, FiniteSets, Integers

(* A mapping of one key, and what g adds to the mapping f.                 *)
Entry(key, text) == [k \in {key} |-> text]
f ++ g == [k \in DOMAIN f \cup DOMAIN g |-> IF k \in DOMAIN f THEN f[k] ELSE g[k]]

Given(key, text) == IF text = "" THEN <<>> ELSE Entry(key, text)

(* The three actions every plugin registers.                               *)
StandardActions ==
    [delay |-> [aliases |-> {}, flags |-> {"time", "offset"},
                required |-> {"time"}],
     throwCustomException |-> [aliases |-> {"exception"},
                               flags |-> {"exception", "exception-message"},
                               required |-> {}],
     returnValue |-> [aliases |-> {"return"}, flags |-> {"return-value"},
                      required |-> {}]]

Plugin(target, matchers, points) ==
    [target |-> target, matchers |-> matchers, points |-> points,
     actions |-> StandardActions, requiredMatchers |-> {}]

RedisPlugin == Plugin("redis", {"cmd", "key"}, {"Redis.execute_command"})
HttpPlugin == Plugin("http", {"url", "method", "host"}, {"HTTPAdapter.send"})
HttpxPlugin ==
    Plugin("httpx", {"url", "method", "host", "path"}, {"AsyncClient.send"})
KafkaPlugin ==
    Plugin("kafka", {"topic", "operation"},
           {"KafkaProducer.send", "KafkaConsumer.poll"})
MysqlPlugin ==
    Plugin("mysql", {"sql", "sqltype", "database"},
           {"MySQLCursor.execute", "Cursor.execute"})
SqlalchemyPlugin ==
    Plugin("sqlalchemy", {"sql", "sqltype", "database"}, {"Connection.execute"})
GrpcPlugin ==
    Plugin("grpc", {"method", "service"}, {"_UnaryUnaryMultiCallable.__call__"})

Plugins == {RedisPlugin, HttpPlugin, HttpxPlugin, KafkaPlugin, MysqlPlugin,
            SqlalchemyPlugin, GrpcPlugin}

Targets == { p.target : p \in Plugins }
Points == UNION { p.points : p \in Plugins }
PluginFor(target) == CHOOSE p \in Plugins : p.target = target
PointsFor(target) == PluginFor(target).points
TargetOf(point) == (CHOOSE p \in Plugins : point \in p.points).target

(* __name__ of the function behind a point.                                *)
FunctionName ==
    [point \in Points |->
        CASE point = "Redis.execute_command" -> "execute_command"
          [] point = "_UnaryUnaryMultiCallable.__call__" -> "__call__"
          [] point = "KafkaConsumer.poll" -> "poll"
          [] point \in {"HTTPAdapter.send", "AsyncClient.send",
                        "KafkaProducer.send"} -> "send"
          [] OTHER -> "execute"]

(* The only one of these functions that is a coroutine function.           *)
IsCoroutine(point) == point = "AsyncClient.send"

-----------------------------------------------------------------------------
RedisMatchers(c) ==
    (IF Len(c.args) >= 1 THEN Entry("cmd", c.args[1]) ELSE <<>>)
    ++ (IF Len(c.args) >= 2 THEN Entry("key", c.args[2]) ELSE <<>>)

(* Of a request given by position only; host is read off the url.          *)
HttpMatchers(c) ==
    IF c.args = <<>> THEN <<>>
    ELSE LET r == c.args[1]
         IN  (IF r.url = "" THEN <<>> ELSE Given("host", r.host))
             ++ Given("url", r.url) ++ Given("method", r.method)

HttpxMatchers(c) ==
    IF c.args = <<>> THEN <<>>
    ELSE LET r == c.args[1]
         IN  (IF r.url = "" THEN <<>>
              ELSE Given("host", r.host) ++ Given("path", r.path))
             ++ Given("url", r.url) ++ Given("method", r.method)

KafkaProducerMatchers(c) ==
    Entry("operation", "produce")
    ++ (IF c.args # <<>> THEN Entry("topic", c.args[1])
        ELSE IF "topic" \in DOMAIN c.kw THEN Entry("topic", c.kw.topic) ELSE <<>>)

(* Several topics are joined with commas: a text that names none of them.  *)
Joined(topics) ==
    IF Cardinality(topics) = 1 THEN CHOOSE t \in topics : TRUE
    ELSE "topics,joined"

(* A consumer may or may not show the topics it is subscribed to.          *)
KafkaConsumerMatchers(c) ==
    Entry("operation", "consume")
    ++ (IF "topics" \in DOMAIN c.obj /\ c.obj.topics # {}
        THEN Entry("topic", Joined(c.obj.topics)) ELSE <<>>)

(* The first word of a statement is its type, where it has one.            *)
StatementMatchers(c) ==
    IF c.args = <<>> THEN <<>>
    ELSE Entry("sql", c.args[1].text) ++ Given("sqltype", c.args[1].word)

DatabaseMatcher(c) ==
    IF "database" \in DOMAIN c.obj THEN Given("database", c.obj.database)
    ELSE <<>>

MysqlMatchers(c) == StatementMatchers(c) ++ DatabaseMatcher(c)
SqlalchemyMatchers(c) == StatementMatchers(c) ++ DatabaseMatcher(c)

GrpcMatchers(c) ==
    IF "path" \in DOMAIN c.obj
    THEN Entry("method", c.obj.path) ++ Entry("service", c.obj.service) ELSE <<>>

Extracted(c) ==
    CASE c.point = "Redis.execute_command" -> RedisMatchers(c)
      [] c.point = "HTTPAdapter.send" -> HttpMatchers(c)
      [] c.point = "AsyncClient.send" -> HttpxMatchers(c)
      [] c.point = "KafkaProducer.send" -> KafkaProducerMatchers(c)
      [] c.point = "KafkaConsumer.poll" -> KafkaConsumerMatchers(c)
      [] c.point \in MysqlPlugin.points -> MysqlMatchers(c)
      [] c.point \in SqlalchemyPlugin.points -> SqlalchemyMatchers(c)
      [] c.point \in GrpcPlugin.points -> GrpcMatchers(c)

(* The name of the function is always there; an extractor that raises adds *)
(* nothing, one that supplies method itself replaces it.                   *)
DoBeforeAdvice(c) ==
    (IF c.opaque THEN <<>> ELSE Extracted(c))
    ++ Entry("method", FunctionName[c.point])
-----------------------------------------------------------------------------
(* What the facts of a call are: they include, by the names of matchers,   *)
(* what its arguments and its object show, and the name of the function    *)
(* where nothing shows a method.                                           *)
Says(c, key, text) == key \in DOMAIN c.facts /\ text \in c.facts[key]
Shows(c, record, keys) ==
    \A key \in keys : record[key] # "" => Says(c, key, record[key])

(* The request of the call, or the stub it is made on, shows a method.     *)
HasMethod(c) ==
    \/ /\ c.point \in HttpPlugin.points \cup HttpxPlugin.points
       /\ c.args # <<>> /\ c.args[1].method # ""
    \/ c.point \in GrpcPlugin.points /\ "path" \in DOMAIN c.obj

Truthful(c) ==
    /\ DOMAIN c.facts \subseteq {"method"} \cup UNION { p.matchers : p \in Plugins }
    /\ c.opaque \/ ~HasMethod(c) =>
          Says(c, "method", FunctionName[c.point])
    /\ c.point = "Redis.execute_command" =>
          /\ Len(c.args) >= 1 => Says(c, "cmd", c.args[1])
          /\ Len(c.args) >= 2 => Says(c, "key", c.args[2])
    /\ c.point \in HttpPlugin.points \cup HttpxPlugin.points =>
          (c.args # <<>> => Shows(c, c.args[1], {"url", "host", "method"}))
    /\ c.point \in HttpxPlugin.points =>
          (c.args # <<>> => Shows(c, c.args[1], {"path"}))
    /\ c.point = "KafkaProducer.send" =>
          /\ Says(c, "operation", "produce")
          /\ c.args # <<>> => Says(c, "topic", c.args[1])
          /\ "topic" \in DOMAIN c.kw => Says(c, "topic", c.kw.topic)
    /\ c.point = "KafkaConsumer.poll" =>
          /\ Says(c, "operation", "consume")
          /\ "topics" \in DOMAIN c.obj /\ c.obj.topics # {} =>
                Says(c, "topic", Joined(c.obj.topics))
    /\ c.point \in MysqlPlugin.points \cup SqlalchemyPlugin.points =>
          /\ c.args # <<>> => /\ Says(c, "sql", c.args[1].text)
                              /\ c.args[1].word # "" =>
                                    Says(c, "sqltype", c.args[1].word)
          /\ "database" \in DOMAIN c.obj => Shows(c, c.obj, {"database"})
    /\ c.point \in GrpcPlugin.points =>
          ("path" \in DOMAIN c.obj =>
              Says(c, "method", c.obj.path) /\ Says(c, "service", c.obj.service))
=============================================================================
