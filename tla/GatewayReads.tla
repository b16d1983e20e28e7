---------------------------- MODULE GatewayReads ----------------------------
(***************************************************************************)
(* The gateway's parts that answer from something they keep or put         *)
(* together, in one run: a behaviour is about one of them, `about', and    *)
(* the others stand still.  FilterSets keeps its own variables, which are  *)
(* an empty store in the behaviours of the others; these share the cells.  *)
(***************************************************************************)
EXTENDS FilterSets, Naturals, Sequences

CONSTANTS
  Parts,                             \* the parts a run is about
  RequestId, Route,                  \* ZabbixAccess
  PollId, MaxTotal, MaxBoot,         \* DockerStats
  Check, Digest,                     \* RegistryUpdates
  CacheTtl, OneCall,                 \* a cache's TTL and a call's timeout, in ticks
  HostTtl,                           \* and of the cache of hosts
  Servers, Line, MaxTime, MaxLog, MaxPage, Limit, Pad, MaxFetch, Window, \* GraylogSearch
  Containers, MaxLines, Polls, LogsTail, Buffer                 \* LogTail

VARIABLES about, c1, c2, c3, c4, c5, c6, c7, c8

Search == INSTANCE GraylogSearch WITH
  Server <- Servers, Cap <- MaxFetch,
  log <- c1, dedupe <- c2, page <- c3, failed <- c4, shown <- c5, before <- c6

Access == INSTANCE ZabbixAccess WITH
  Request <- RequestId, Ttl <- CacheTtl, Timeout <- OneCall,
  holds <- c1, since <- c2, cache <- c3, req <- c4

Stats == INSTANCE DockerStats WITH
  Poll <- PollId, now <- c1, prev <- c2, kept <- c3, poll <- c4, shown <- c5

Updates == INSTANCE RegistryUpdates WITH
  Ttl <- CacheTtl, Timeout <- OneCall,
  tag <- c1, replaced <- c2, running <- c3, images <- c4, cache <- c5, check <- c6,
  missed <- c7

Logs == INSTANCE LogTail WITH
  Writes <- Containers, MaxTime <- MaxLines, Cap <- Buffer,
  log <- c1, target <- c2, range <- c3, load <- c4, poll <- c5, lines <- c6,
  cursor <- c7, from <- c8

ASSUME ReadsAssumption ==
  /\ Parts \subseteq {"filters", "search", "access", "stats", "updates", "tail"}
  /\ Search!SearchAssumption /\ Access!AccessAssumption /\ Stats!StatsAssumption
  /\ Updates!UpdatesAssumption /\ Logs!TailAssumption

Rest(S) == UNCHANGED <<about, vars, S>>

ReadsInit ==
  /\ about \in Parts
  /\ Init
  /\ about # "filters" => ~file.whole /\ ~writable
  /\ \/ /\ about = "filters"
        /\ c1 = 0 /\ c2 = 0 /\ c3 = 0 /\ c4 = 0 /\ c5 = 0 /\ c6 = 0 /\ c7 = 0 /\ c8 = 0
     \/ about = "search"  /\ Search!Init /\ c7 = 0 /\ c8 = 0
     \/ about = "access"  /\ Access!Init /\ c5 = 0 /\ c6 = 0 /\ c7 = 0 /\ c8 = 0
     \/ about = "stats"   /\ Stats!Init /\ c6 = 0 /\ c7 = 0 /\ c8 = 0
     \/ about = "updates" /\ Updates!Init /\ c8 = 0
     \/ about = "tail"    /\ Logs!Init

ReadsNext ==
  \/ about = "filters" /\ Next /\ UNCHANGED <<about, c1, c2, c3, c4, c5, c6, c7, c8>>
  \/ about = "search"  /\ Search!Next /\ Rest(<<c7, c8>>)
  \/ about = "access"  /\ Access!Next /\ Rest(<<c5, c6, c7, c8>>)
  \/ about = "stats"   /\ Stats!Next /\ Rest(<<c6, c7, c8>>)
  \/ about = "updates" /\ Updates!Next /\ Rest(c8)
  \/ about = "tail"    /\ Logs!Next /\ Rest(<<>>)

all == <<about, vars, c1, c2, c3, c4, c5, c6, c7, c8>>

ReadsSpec == ReadsInit /\ [][ReadsNext]_all

-----------------------------------------------------------------------------
(* The properties are those of the modules, each for its own behaviours;   *)
(* BoardSpec is FilterSets' own.                                           *)

\* The components' variables keep their types.
ReadsTypeOK ==
  /\ TypeOK
  /\ about = "search"  => Search!TypeOK
  /\ about = "access"  => Access!TypeOK
  /\ about = "stats"   => Stats!TypeOK
  /\ about = "updates" => Updates!TypeOK
  /\ about = "tail"    => Logs!TypeOK

\* A page neither merges nor splits lines it should not, the first one has the
\* newest lines of the servers that answered, and without deduplication the
\* pages go back in time and no message is on two of them
\* (graylog.py:126-205, 436-507).
SearchHolds ==
  about = "search" =>
    Search!MergeSound /\ Search!FirstPageIsNewest /\ Search!PlainPagesDescend

\* No route does its work on a session or a right older than the TTL of what it
\* looked up last and a call's timeout together (zabbix.py:121-265, docker_routes.py:104-295).
AccessIsRecent == [][about = "access" => Access!RecentWord]_all

\* The processor usage shown stays within the host, whatever two samples it is
\* taken from (docker_stats.py:15-52, docker_hosts.py:1174-1187).
StatsWithinHost == about = "stats" => Stats!UsageWithinHost

\* The registry's digest shown, or that it is unknown, is recent
\* (docker_updates.py:143-219, docker_routes.py:329-400).
UpdatesAreRecent == [][about = "updates" => Updates!RecentDigest]_all

\* The log of a container that writes to one stream is shown in order and
\* without gaps, once a load has answered with no poll under way
\* (use-docker-logs.ts:52-106, docker_hosts.py:276-314, 892-937).
TailIsWhole == about = "tail" => Logs!OneStreamIsWhole

-----------------------------------------------------------------------------
(* What a comment says, and the code does not do.                          *)

\* Reading stdout and stderr by two calls "costs one extra round trip and
\* nothing else" (docker_hosts.py:290-298).
NoLogLineSkipped == about = "tail" => Logs!NoLineSkipped
=============================================================================
