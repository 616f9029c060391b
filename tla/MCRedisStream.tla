---------------------------- MODULE MCRedisStream ----------------------------
EXTENDS RedisStream

OneStream == [m \in Messages |-> "a"]
=============================================================================
