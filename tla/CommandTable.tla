---------------------------- MODULE CommandTable ----------------------------
(***************************************************************************)
(* The table of Redis commands and of where their keys are                 *)
(* (internal/commands/table.go, types.go), a definition for each group of  *)
(* commands.  A specification says where to begin, at an argument or after *)
(* a keyword, and which arguments from there are keys, a range of them or  *)
(* as many as the first one says.                                          *)
(***************************************************************************)
EXTENDS Integers, TLC

KeyRange(begin, last, step) == [search |-> "index", begin |-> begin, find |-> "range",
                             last |-> last, step |-> step, limit |-> 0]
Counted(begin, step) == [search |-> "index", begin |-> begin, find |-> "keynum",
                         keynum |-> 0, first |-> 1, step |-> step]
After(keyword, from, last, step, limit) ==
    [search |-> "keyword", keyword |-> keyword, from |-> from, find |-> "range",
     last |-> last, step |-> step, limit |-> limit]

First == KeyRange(1, 0, 1)
Second == KeyRange(2, 0, 1)
FromFirst == KeyRange(1, -1, 1)
FromSecond == KeyRange(2, -1, 1)

In(group, keySpec, names) == [n \in names |-> [group |-> group, keySpec |-> keySpec]]

\* Commands that are looked up together with their first argument.
containers ==
    {"ACL", "CLIENT", "CLUSTER", "COMMAND", "COMMANDLOG", "CONFIG", "FUNCTION", "LATENCY",
     "MEMORY", "MODULE", "OBJECT", "PUBSUB", "SCRIPT", "SENTINEL", "SLOWLOG", "XGROUP", "XINFO"}

ServerCommands ==
    In("SERVER", <<>>, {
        "ACL-CAT", "ACL-DELUSER", "ACL-DRYRUN", "ACL-GENPASS", "ACL-GETUSER", "ACL-HELP",
        "ACL-LIST", "ACL-LOAD", "ACL-LOG", "ACL-SAVE", "ACL-SETUSER", "ACL-USERS", "ACL-WHOAMI",
        "ACL", "BGREWRITEAOF", "BGSAVE", "COMMAND-COUNT", "COMMAND-DOCS", "COMMAND-GETKEYS",
        "COMMAND-GETKEYSANDFLAGS", "COMMAND-HELP", "COMMAND-INFO", "COMMAND-LIST", "COMMAND",
        "COMMANDLOG-GET", "COMMANDLOG-HELP", "COMMANDLOG-LEN", "COMMANDLOG-RESET", "COMMANDLOG",
        "CONFIG-GET", "CONFIG-HELP", "CONFIG-RESETSTAT", "CONFIG-REWRITE", "CONFIG-SET", "CONFIG",
        "DBSIZE", "DEBUG", "FAILOVER", "FLUSHALL", "FLUSHDB", "INFO", "LASTSAVE",
        "LATENCY-DOCTOR", "LATENCY-GRAPH", "LATENCY-HELP", "LATENCY-HISTOGRAM", "LATENCY-HISTORY",
        "LATENCY-LATEST", "LATENCY-RESET", "LATENCY", "LOLWUT", "MEMORY-DOCTOR", "MEMORY-HELP",
        "MEMORY-MALLOC-STATS", "MEMORY-PURGE", "MEMORY-STATS", "MEMORY", "MODULE-HELP",
        "MODULE-LIST", "MODULE-LOAD", "MODULE-LOADEX", "MODULE-UNLOAD", "MODULE", "MONITOR",
        "PSYNC", "REPLCONF", "REPLICAOF", "ROLE", "SAVE", "SFLUSH", "SHUTDOWN", "SLAVEOF",
        "SLOWLOG-GET", "SLOWLOG-HELP", "SLOWLOG-LEN", "SLOWLOG-RESET", "SLOWLOG", "SWAPDB",
        "SYNC", "TIME", "TRIMSLOTS"}) @@
    In("SERVER", <<Second>>, {"MEMORY-USAGE"}) @@
    In("SERVER", <<First>>, {"RESTORE-ASKING"})

StringCommands ==
    In("STRING", <<First>>, {
        "APPEND", "DECR", "DECRBY", "DELEX", "DELIFEQ", "DIGEST", "GET", "GETDEL", "GETEX",
        "GETRANGE", "GETSET", "INCR", "INCRBY", "INCRBYFLOAT", "PSETEX", "SET", "SETEX", "SETNX",
        "SETRANGE", "STRLEN", "SUBSTR"}) @@
    In("STRING", <<KeyRange(1, 1, 1)>>, {"LCS"}) @@
    In("STRING", <<FromFirst>>, {"MGET"}) @@
    In("STRING", <<KeyRange(1, -1, 2)>>, {"MSET", "MSETNX"}) @@
    In("STRING", <<Counted(1, 2)>>, {"MSETEX"})

ClusterCommands ==
    In("CLUSTER", <<>>, {
        "ASKING", "CLUSTER-ADDSLOTS", "CLUSTER-ADDSLOTSRANGE", "CLUSTER-BUMPEPOCH",
        "CLUSTER-CANCELSLOTMIGRATIONS", "CLUSTER-COUNT-FAILURE-REPORTS",
        "CLUSTER-COUNTKEYSINSLOT", "CLUSTER-DELSLOTS", "CLUSTER-DELSLOTSRANGE",
        "CLUSTER-FAILOVER", "CLUSTER-FLUSHSLOT", "CLUSTER-FLUSHSLOTS", "CLUSTER-FORGET",
        "CLUSTER-GETKEYSINSLOT", "CLUSTER-GETSLOTMIGRATIONS", "CLUSTER-HELP", "CLUSTER-INFO",
        "CLUSTER-KEYSLOT", "CLUSTER-LINKS", "CLUSTER-MEET", "CLUSTER-MIGRATESLOTS",
        "CLUSTER-MIGRATION", "CLUSTER-MYID", "CLUSTER-MYSHARDID", "CLUSTER-NODES",
        "CLUSTER-REPLICAS", "CLUSTER-REPLICATE", "CLUSTER-RESET", "CLUSTER-SAVECONFIG",
        "CLUSTER-SET-CONFIG-EPOCH", "CLUSTER-SETSLOT", "CLUSTER-SHARDS", "CLUSTER-SLAVES",
        "CLUSTER-SLOT-STATS", "CLUSTER-SLOTS", "CLUSTER-SYNCSLOTS", "CLUSTER", "READONLY",
        "READWRITE"})

ConnectionCommands ==
    In("CONNECTION", <<>>, {
        "AUTH", "CLIENT-CACHING", "CLIENT-CAPA", "CLIENT-GETNAME", "CLIENT-GETREDIR",
        "CLIENT-HELP", "CLIENT-ID", "CLIENT-IMPORT-SOURCE", "CLIENT-INFO", "CLIENT-KILL",
        "CLIENT-LIST", "CLIENT-NO-EVICT", "CLIENT-NO-TOUCH", "CLIENT-PAUSE", "CLIENT-REPLY",
        "CLIENT-SETINFO", "CLIENT-SETNAME", "CLIENT-TRACKING", "CLIENT-TRACKINGINFO",
        "CLIENT-UNBLOCK", "CLIENT-UNPAUSE", "CLIENT", "ECHO", "HELLO", "PING", "QUIT", "RESET",
        "SELECT"})

BitmapCommands ==
    In("BITMAP", <<First>>, {
        "BITCOUNT", "BITFIELD", "BITFIELD_RO", "BITPOS", "GETBIT", "SETBIT"}) @@
    In("BITMAP", <<Second, KeyRange(3, -1, 1)>>, {"BITOP"})

ListCommands ==
    In("LIST", <<First, Second>>, {"BLMOVE", "BRPOPLPUSH", "LMOVE", "RPOPLPUSH"}) @@
    In("LIST", <<Counted(2, 1)>>, {"BLMPOP"}) @@
    In("LIST", <<KeyRange(1, -2, 1)>>, {"BLPOP", "BRPOP"}) @@
    In("LIST", <<First>>, {
        "LINDEX", "LINSERT", "LLEN", "LPOP", "LPOS", "LPUSH", "LPUSHX", "LRANGE", "LREM", "LSET",
        "LTRIM", "RPOP", "RPUSH", "RPUSHX"}) @@
    In("LIST", <<Counted(1, 1)>>, {"LMPOP"})

SortedSetCommands ==
    In("SORTED_SET", <<Counted(2, 1)>>, {"BZMPOP"}) @@
    In("SORTED_SET", <<KeyRange(1, -2, 1)>>, {"BZPOPMAX", "BZPOPMIN"}) @@
    In("SORTED_SET", <<First>>, {
        "ZADD", "ZCARD", "ZCOUNT", "ZINCRBY", "ZLEXCOUNT", "ZMSCORE", "ZPOPMAX", "ZPOPMIN",
        "ZRANDMEMBER", "ZRANGE", "ZRANGEBYLEX", "ZRANGEBYSCORE", "ZRANK", "ZREM",
        "ZREMRANGEBYLEX", "ZREMRANGEBYRANK", "ZREMRANGEBYSCORE", "ZREVRANGE", "ZREVRANGEBYLEX",
        "ZREVRANGEBYSCORE", "ZREVRANK", "ZSCAN", "ZSCORE"}) @@
    In("SORTED_SET", <<Counted(1, 1)>>, {"ZDIFF", "ZINTER", "ZINTERCARD", "ZMPOP", "ZUNION"}) @@
    In("SORTED_SET", <<First, Counted(2, 1)>>, {"ZDIFFSTORE", "ZINTERSTORE", "ZUNIONSTORE"}) @@
    In("SORTED_SET", <<First, Second>>, {"ZRANGESTORE"})

GenericCommands ==
    In("GENERIC", <<First, Second>>, {"COPY", "RENAME", "RENAMENX"}) @@
    In("GENERIC", <<FromFirst>>, {"DEL", "EXISTS", "TOUCH", "UNLINK"}) @@
    In("GENERIC", <<First>>, {
        "DUMP", "EXPIRE", "EXPIREAT", "EXPIRETIME", "MOVE", "PERSIST", "PEXPIRE", "PEXPIREAT",
        "PEXPIRETIME", "PTTL", "RESTORE", "TTL", "TYPE"}) @@
    In("GENERIC", <<>>, {
        "KEYS", "OBJECT-HELP", "OBJECT", "RANDOMKEY", "SCAN", "WAIT", "WAITAOF"}) @@
    In("GENERIC", <<Second>>, {
        "OBJECT-ENCODING", "OBJECT-FREQ", "OBJECT-IDLETIME", "OBJECT-REFCOUNT"})

TransactionsCommands ==
    In("TRANSACTIONS", <<>>, {"DISCARD", "EXEC", "MULTI", "UNWATCH"}) @@
    In("TRANSACTIONS", <<FromFirst>>, {"WATCH"})

ScriptingCommands ==
    In("SCRIPTING", <<Counted(2, 1)>>, {
        "EVAL", "EVAL_RO", "EVALSHA", "EVALSHA_RO", "FCALL", "FCALL_RO"}) @@
    In("SCRIPTING", <<>>, {
        "FUNCTION-DELETE", "FUNCTION-DUMP", "FUNCTION-FLUSH", "FUNCTION-HELP", "FUNCTION-KILL",
        "FUNCTION-LIST", "FUNCTION-LOAD", "FUNCTION-RESTORE", "FUNCTION-STATS", "FUNCTION",
        "SCRIPT-DEBUG", "SCRIPT-EXISTS", "SCRIPT-FLUSH", "SCRIPT-HELP", "SCRIPT-KILL",
        "SCRIPT-LOAD", "SCRIPT-SHOW", "SCRIPT"})

TairhashCommands ==
    In("TAIRHASH", <<First>>, {"EXHSET"})

TairstringCommands ==
    In("TAIRSTRING", <<First>>, {"EXSET"})

TairzsetCommands ==
    In("TAIRZSET", <<First>>, {"EXZADD"})

GeoCommands ==
    In("GEO", <<First>>, {
        "GEOADD", "GEODIST", "GEOHASH", "GEOPOS", "GEORADIUS_RO", "GEORADIUSBYMEMBER_RO",
        "GEOSEARCH"}) @@
    In("GEO", <<First, After("STORE", 6, 0, 1, 0), After("STOREDIST", 6, 0, 1, 0)>>, {
        "GEORADIUS"}) @@
    In("GEO", <<First, After("STORE", 5, 0, 1, 0), After("STOREDIST", 5, 0, 1, 0)>>, {
        "GEORADIUSBYMEMBER"}) @@
    In("GEO", <<First, Second>>, {"GEOSEARCHSTORE"})

HashCommands ==
    In("HASH", <<First>>, {
        "HDEL", "HEXISTS", "HEXPIRE", "HEXPIREAT", "HEXPIRETIME", "HGET", "HGETALL", "HGETDEL",
        "HGETEX", "HINCRBY", "HINCRBYFLOAT", "HKEYS", "HLEN", "HMGET", "HMSET", "HPERSIST",
        "HPEXPIRE", "HPEXPIREAT", "HPEXPIRETIME", "HPTTL", "HRANDFIELD", "HSCAN", "HSET",
        "HSETEX", "HSETNX", "HSTRLEN", "HTTL", "HVALS"})

HyperloglogCommands ==
    In("HYPERLOGLOG", <<First>>, {"PFADD"}) @@
    In("HYPERLOGLOG", <<FromFirst>>, {"PFCOUNT"}) @@
    In("HYPERLOGLOG", <<Second>>, {"PFDEBUG"}) @@
    In("HYPERLOGLOG", <<First, FromSecond>>, {"PFMERGE"}) @@
    In("HYPERLOGLOG", <<>>, {"PFSELFTEST"})

PubsubCommands ==
    In("PUBSUB", <<>>, {
        "PSUBSCRIBE", "PUBLISH", "PUBSUB-CHANNELS", "PUBSUB-HELP", "PUBSUB-NUMPAT",
        "PUBSUB-NUMSUB", "PUBSUB-SHARDCHANNELS", "PUBSUB-SHARDNUMSUB", "PUBSUB", "PUNSUBSCRIBE",
        "SUBSCRIBE", "UNSUBSCRIBE"}) @@
    In("PUBSUB", <<First>>, {"SPUBLISH"}) @@
    In("PUBSUB", <<FromFirst>>, {"SSUBSCRIBE", "SUNSUBSCRIBE"})

SetCommands ==
    In("SET", <<First>>, {
        "SADD", "SCARD", "SISMEMBER", "SMEMBERS", "SMISMEMBER", "SPOP", "SRANDMEMBER", "SREM",
        "SSCAN"}) @@
    In("SET", <<FromFirst>>, {"SDIFF", "SINTER", "SUNION"}) @@
    In("SET", <<First, FromSecond>>, {"SDIFFSTORE", "SINTERSTORE", "SUNIONSTORE"}) @@
    In("SET", <<Counted(1, 1)>>, {"SINTERCARD"}) @@
    In("SET", <<First, Second>>, {"SMOVE"})

SentinelCommands ==
    In("SENTINEL", <<>>, {
        "SENTINEL-CKQUORUM", "SENTINEL-CONFIG", "SENTINEL-DEBUG", "SENTINEL-FAILOVER",
        "SENTINEL-FLUSHCONFIG", "SENTINEL-GET-MASTER-ADDR-BY-NAME",
        "SENTINEL-GET-PRIMARY-ADDR-BY-NAME", "SENTINEL-HELP", "SENTINEL-INFO-CACHE",
        "SENTINEL-IS-MASTER-DOWN-BY-ADDR", "SENTINEL-IS-PRIMARY-DOWN-BY-ADDR", "SENTINEL-MASTER",
        "SENTINEL-MASTERS", "SENTINEL-MONITOR", "SENTINEL-MYID", "SENTINEL-PENDING-SCRIPTS",
        "SENTINEL-PRIMARIES", "SENTINEL-PRIMARY", "SENTINEL-REMOVE", "SENTINEL-REPLICAS",
        "SENTINEL-RESET", "SENTINEL-SENTINELS", "SENTINEL-SET", "SENTINEL-SIMULATE-FAILURE",
        "SENTINEL-SLAVES", "SENTINEL"})

StreamCommands ==
    In("STREAM", <<First>>, {
        "XACK", "XACKDEL", "XADD", "XAUTOCLAIM", "XCLAIM", "XDEL", "XDELEX", "XLEN", "XPENDING",
        "XRANGE", "XREVRANGE", "XSETID", "XTRIM"}) @@
    In("STREAM", <<Second>>, {
        "XGROUP-CREATE", "XGROUP-CREATECONSUMER", "XGROUP-DELCONSUMER", "XGROUP-DESTROY",
        "XGROUP-SETID", "XINFO-CONSUMERS", "XINFO-GROUPS", "XINFO-STREAM"}) @@
    In("STREAM", <<>>, {"XGROUP-HELP", "XGROUP", "XINFO-HELP", "XINFO"}) @@
    In("STREAM", <<After("STREAMS", 1, -1, 1, 2)>>, {"XREAD"}) @@
    In("STREAM", <<After("STREAMS", 4, -1, 1, 2)>>, {"XREADGROUP"})

BloomFilterCommands ==
    In("BLOOM FILTER", <<First>>, {
        "BF.ADD", "BF.CARD", "BF.EXISTS", "BF.INFO", "BF.INSERT", "BF.LOADCHUNK", "BF.MADD",
        "BF.MEXISTS", "BF.RESERVE", "BF.SCANDUMP"})

redisCommands ==
    ServerCommands @@ StringCommands @@ ClusterCommands @@ ConnectionCommands @@
    BitmapCommands @@ ListCommands @@ SortedSetCommands @@ GenericCommands @@
    TransactionsCommands @@ ScriptingCommands @@ TairhashCommands @@ TairstringCommands @@
    TairzsetCommands @@ GeoCommands @@ HashCommands @@ HyperloglogCommands @@ PubsubCommands
    @@ SetCommands @@ SentinelCommands @@ StreamCommands @@ BloomFilterCommands
=============================================================================
