---------------------------------- MODULE Cdn ---------------------------------
(***************************************************************************)
(* The CDN providers of synth/cdn.rs: which names, addresses and SOA       *)
(* records each recognises, which name it has resolved, and how; composed  *)
(* with the synthesizer chain of module Chain, which runs their plans.     *)
(*                                                                         *)
(* A name is the sequence of its lowercase labels, the root dropped, as    *)
(* labels() gives it; a label is the sequence of its dash-separated parts, *)
(* as split('-') gives them.  The limits on the length of a label and of a *)
(* name, past which a rewrite yields None too, are left out.               *)
(***************************************************************************)
EXTENDS Chain, Addresses, Integers

CONSTANTS
  Contexts,   \* the facts a call may start from
  References, \* what resolving a name may yield
  Buckets,    \* names of buckets, as labels in front of a storage endpoint
  Regions     \* the labels of regions

(* Indexing a Vec past its end panics; no label has a dot.                 *)
Panic == <<".">>

EmptyLabel == <<"">>

(* labels() leaves the empty labels out.                                   *)
Label == Seq(STRING \ {"."}) \ {<<>>, EmptyLabel}

Name == Seq(Label)

(* SynthContext: the name, its CNAME targets in order, its A records, and  *)
(* the mailbox and the zone of the SOA record, <<>> where there is none.   *)
Facts == [name : Name, cnames : Seq(Name), a : SUBSET [addr : IPv4, ttl : Nat],
          admin : Name, zone : Name]

VARIABLE facts  \* the context of each call, until then NoFacts

NoFacts == [name |-> <<>>, cnames |-> <<>>, a |-> {}, admin |-> <<>>,
            zone |-> <<>>]

None == <<>>

At(v, i) == IF i < Len(v) THEN v[i + 1] ELSE Panic

(* name_from_labels refuses an empty label, which only oss_rewrite leaves. *)
NameFromLabels(labels) == IF EmptyLabel \in ToSet(labels) THEN None ELSE labels

(* A name all of whose labels have one part.                               *)
Dotted(parts) == [i \in DOMAIN parts |-> <<parts[i]>>]

EndsWith(name, suffix) ==
  /\ Len(name) >= Len(suffix)
  /\ SubSeq(name, Len(name) - Len(suffix) + 1, Len(name)) = suffix

(* hostnames: CNAME targets first, then the queried name.                  *)
Hostnames(f) == Append(f.cnames, f.name)

HostMatches(f, suffixes) ==
  \E h \in ToSet(Hostnames(f)) : \E s \in suffixes : EndsWith(h, s)

IpMatches(f, blocks) == \E ip \in Addrs(f.a) : InAny(ip, blocks)
-------------------------------------------------------------------------------
(* What detect returns: the plan for the chain, and the name to resolve.   *)
NotDetected == [plan |-> NoPlan, target |-> None]

Asks(combine, target) ==
  [plan |-> [lookups |-> 1, combine |-> combine, claims |-> {}],
   target |-> target]

Pure(combine, claims) ==
  [plan |-> [lookups |-> 0, combine |-> combine, claims |-> claims],
   target |-> None]

Inside(f, block) == {ip \in Addrs(f.a) : InCidr(ip, block)}

(* MatchConst: a constant, for the suffixes and the ranges of the provider *)
(* (every one of them is without a reference).                             *)
MatchConst ==
  [shopify |-> [suffixes |-> {Dotted(<<"shopify", "com">>),
                              Dotted(<<"myshopify", "com">>)},
                ranges |-> {Block(23, 227, 37, 0, 24),
                            Block(23, 227, 38, 0, 23),
                            Block(23, 227, 60, 0, 24),
                            Block(185, 146, 172, 0, 23)}],
   webflow |-> [suffixes |-> {Dotted(<<"webflow", "com">>)},
                ranges |-> {Block(198, 202, 211, 0, 24),
                            Block(75, 2, 70, 75, 32),
                            Block(99, 83, 190, 102, 32)}],
   weebly |-> [suffixes |-> {Dotted(<<"weebly", "com">>)},
               ranges |-> {Block(199, 34, 228, 0, 22)}]]

(* CLOUDFRONT_RANGES: three of its hundred and fifty.                      *)
CloudfrontRanges ==
  {Block(13, 32, 0, 0, 15), Block(54, 192, 0, 0, 16),
   Block(120, 52, 22, 96, 27)}

Borrowing(suffixes, ranges, reference, fallback) ==
  [suffixes |-> suffixes, ranges |-> ranges, admin |-> None,
   reference |-> reference, fallback |-> fallback]

BunnyCdn == <<<<"b", "cdn">>, <<"net">>>>

(* MatchBorrow: the addresses of a reference name, some with a constant    *)
(* for when it has none.                                                   *)
MatchBorrow ==
  [cloudfront |-> Borrowing({Dotted(<<"cloudfront", "net">>)}, CloudfrontRanges,
                            Dotted(<<"static", "twitchcdn", "net">>), FALSE),
   bunnycdn |-> Borrowing({BunnyCdn}, {}, Dotted(<<"bunnyfonts">>) \o BunnyCdn,
                          TRUE),
   blazingcdn |-> Borrowing({Dotted(<<"blazingcdn", "net">>)}, {},
                            Dotted(<<"cdn59455242", "blazingcdn", "net">>),
                            TRUE),
   gcorecdn |-> Borrowing({Dotted(<<"gcdn", "co">>)}, {},
                          Dotted(<<"d", "gcdn", "co">>), FALSE),
   cdn77 |-> [Borrowing({Dotted(<<"cdn77", "org">>)}, {},
                        Dotted(<<"www", "cdn77", "com">>), FALSE)
              EXCEPT !.admin = Dotted(<<"admin", "cdn77", "com">>)],
   sucuri |-> Borrowing({}, {Block(192, 124, 249, 0, 24)},
                        Dotted(<<"sucuri", "net">>), FALSE),
   netlify |-> Borrowing({Dotted(<<"netlify", "com">>)},
                         {Block(75, 2, 60, 5, 32), Block(99, 83, 231, 61, 32)},
                         Dotted(<<"www", "netlify", "com">>), FALSE),
   bearblog |-> Borrowing({}, {Block(159, 223, 204, 176, 32)},
                          <<<<"domain", "proxy">>, <<"bearblog">>, <<"dev">>>>,
                          FALSE),
   alicdn |-> Borrowing({Dotted(<<"alicdn", "com">>)}, {},
                        Dotted(<<"t", "alicdn", "com">>), FALSE)]

DetectConst(entry, f) ==
  IF HostMatches(f, entry.suffixes) \/ IpMatches(f, entry.ranges)
  THEN Pure("constant", {})
  ELSE NotDetected

DetectBorrow(entry, f) ==
  IF \/ entry.admin # None /\ f.admin = entry.admin
     \/ HostMatches(f, entry.suffixes)
     \/ IpMatches(f, entry.ranges)
  THEN Asks(IF entry.fallback THEN "borrow" ELSE "verbatim", entry.reference)
  ELSE NotDetected

(* MatchRewrite, of the hostnames as a rewrite leaves them: the first that *)
(* it matched is asked for.                                                *)
FirstRewritten(rewritten) ==
  LET i == SelectInSeq(rewritten, LAMBDA name : name # None)
  IN IF i = 0 THEN None ELSE rewritten[i]

DetectRewrite(rewritten) ==
  IF FirstRewritten(rewritten) = None THEN NotDetected
  ELSE Asks("verbatim", FirstRewritten(rewritten))
-------------------------------------------------------------------------------
(* The splices of JavaScript that the rewrites are ported from, which      *)
(* forgive an index past the end, and the search that yields -1.  Indices  *)
(* are the code's, from 0.                                                 *)
Position(v, item) == SelectInSeq(v, LAMBDA x : x = item) - 1

SpliceInsert(v, i, item) ==
  InsertAt(v, IF i < Len(v) THEN i + 1 ELSE Len(v) + 1, item)

SpliceRemove(v, i) == IF i < Len(v) THEN RemoveAt(v, i + 1) ELSE v

SpliceReplace(v, i, item) ==
  IF i < Len(v) THEN ReplaceAt(v, i + 1, item) ELSE Append(v, item)

(* akamai_rewrite: a prefix to the label before the suffix.                *)
AkamaiRewrite(name) ==
  LET n == Len(name)
      lab == name[n - 2]
      prefix == IF lab = <<"cj">> THEN "ds" ELSE "dsc"
  IN IF /\ n >= 3
        /\ name[n] = <<"net">>
        /\ name[n - 1] \in {<<"akamaiedge">>, <<"akamai">>}
     THEN ReplaceAt(name, n - 2, <<prefix \o Head(lab)>> \o Tail(lab))
     ELSE None

AwsglbRewrite(name) ==
  LET n == Len(name)
  IN IF ~EndsWith(name, Dotted(<<"awsglobalaccelerator", "com">>)) THEN None
     ELSE IF n >= 3 /\ name[n - 2] = <<"dualstack">> THEN name
     ELSE SpliceInsert(name, n - 2, <<"dualstack">>)

AzureRewrite(name) ==
  LET n == Len(name)
  IN IF n >= 4 /\ EndsWith(name, Dotted(<<"azurewebsites", "windows", "net">>))
     THEN ReplaceAt(name, n - 3, <<"sip", "v4andv6">>)
     ELSE None

(* The labels of the form r?vip\d+ that occur, with what the rewrite makes *)
(* of each.                                                                *)
Vip == {<<"vip1">>, <<"rvip1">>}

CacheflyRewrite(name) ==
  LET n == Len(name)
      middle == SubSeq(name, 2, n - 2)
  IN IF /\ n >= 4
        /\ EndsWith(name, Dotted(<<"cachefly", "net">>))
        /\ Head(name) \in Vip
     THEN <<<<"rvip1", "dstack">>>>
          \o (IF middle = <<<<"g", "anycast1">>>> THEN Dotted(<<"g">>)
                                                 ELSE middle)
          \o Dotted(<<"cachefly", "net">>)
     ELSE None
-------------------------------------------------------------------------------
(* s3_rewrite works on the reversed labels, the China suffix taken off.    *)
Form(labels, china) == [labels |-> labels, china |-> china]

NoForm == Form(None, FALSE)

UsEast1 == <<"us", "east", "1">>

(* Mutant: the service stays in front of the region.                       *)
S3RegionWithService(parts, china) == parts

(* The region in a label like s3-us-west-2, if it has three parts.         *)
S3Region(parts, china) ==
  IF Len(parts) = 4 /\ ~china THEN Tail(parts) ELSE parts

(* The region made a label of its own, filled in where it is implied.      *)
(* Five labels get a sixth, the last again, which most forms drop.         *)
S3Form(s, china) ==
  LET parts == At(s, 2)
      body == IF Len(s) = 5 THEN Append(s, At(s, 4)) ELSE s
      Is(label, i) == Position(s, label) = i
      implied == SpliceInsert(body, 2, UsEast1)
      regional == SpliceInsert(SpliceRemove(body, 2), 2, S3Region(parts, china))
  IN IF Is(<<"s3", "accelerate">>, 2)
       THEN Form(SpliceInsert(body, 2, <<"dualstack">>), FALSE)
     ELSE IF Is(<<"s3", "accesspoint">>, 3)
       THEN Form(SpliceRemove(body, 4), china)
     ELSE IF Is(<<"s3", "website">>, 3)
       THEN Form(SpliceRemove(body, 4), FALSE)
     ELSE IF Is(<<"console", "l">>, 2) THEN NoForm
     ELSE IF parts[1] = "s3" /\ Len(parts) \in {2, 3} /\ ~china
       THEN Form(IF parts[2] = "1"
                 THEN SpliceReplace(implied, 3, <<"s3", "r", "w">>)
                 ELSE implied, FALSE)
     ELSE IF Is(<<"s3">>, 3) \/ Is(<<"s3", "control">>, 3)
       THEN Form(SpliceRemove(body, 4), china)
     ELSE IF Len(parts) > 1 /\ parts[1] = "s3" /\ parts[2] = "website"
       THEN Form(SpliceReplace(SpliceReplace(body, 2, UsEast1), 3,
                               <<"s3", "website">>), china)
     ELSE IF Len(parts) > 1
       THEN IF parts[1] # "s3" THEN NoForm
            ELSE Form(IF Is(<<"s3">>, -1)
                      THEN SpliceInsert(regional, 3, <<"s3">>) ELSE regional,
                      china)
     ELSE IF Is(<<"s3">>, 2) /\ ~china THEN Form(implied, FALSE)
     ELSE NoForm

S3Rewrite(name) ==
  LET reversed == Reverse(name)
      china == Position(reversed, <<"cn">>) = 0
      s == IF china THEN Tail(reversed) ELSE reversed
      form == S3Form(s, china)
      dual == IF At(form.labels, 2) = <<"dualstack">> THEN form.labels
              ELSE SpliceInsert(form.labels, 3, <<"dualstack">>)
  IN IF \/ Position(s, <<"dualstack">>) = 3
        \/ Position(s, <<"amazonaws">>) # 1
        \/ Len(s) <= 2
        \/ form = NoForm
     THEN None
     ELSE Reverse(IF form.china THEN <<<<"cn">>>> \o dual ELSE dual)
-------------------------------------------------------------------------------
(* OSS_REGIONS: four of its thirty-four.                                   *)
OssRegions == {<<"cn", "hangzhou">>, <<"cn", "beijing">>,
               <<"eu", "central", "1">>, <<"cn", "hangzhou", "finance">>}

(* set_ext, twice: what is no region becomes one in front of the rest.     *)
InHangzhou(parts) == <<"cn", "hangzhou">> \o SubSeq(parts, 3, Len(parts))

(* Mutant: a bare aliyuncs.com passes for an endpoint.                     *)
OssMatchesBare(s) ==
  /\ Position(s, <<"com">>) = 0
  /\ \/ Position(s, <<"aliyuncs">>) = 1
     \/ Position(s, <<"aliyun", "inc">>) = 1

OssMatches(s) ==
  /\ Position(s, <<"com">>) = 0
  /\ \/ Position(s, <<"aliyuncs">>) = 1
     \/ Position(s, <<"aliyun", "inc">>) = 1
  /\ Len(s) > 2

(* The label that holds the region is that before aliyuncs, or before oss  *)
(* where this comes first.                                                 *)
IsNative(s) == Position(s, <<"oss">>) = 2

OssLoc(s) == IF IsNative(s) /\ Len(s) > 3 THEN 3 ELSE 2

IsNamed(s) == Head(At(s, OssLoc(s))) = "oss"

OssListed(s) == IF IsNamed(s) THEN Tail(At(s, OssLoc(s))) ELSE At(s, OssLoc(s))

OssRegion(s) == IF IsNative(s) /\ OssListed(s) \notin OssRegions
                THEN InHangzhou(OssListed(s)) ELSE OssListed(s)

(* oss_rewrite, the body of the matched name.                              *)
OssBody(s) ==
  LET body == IF Len(s) = 4 /\ Position(s, <<"oss">>) = -1
              THEN SpliceRemove(s, 3) ELSE s
      placed == IF OssRegion(s) = <<>> THEN SpliceRemove(body, 2)
                ELSE SpliceReplace(body, OssLoc(s), OssRegion(s))
  IN IF IsNamed(s) THEN SpliceInsert(placed, 2, <<"oss">>) ELSE placed

OssRewrite(name) ==
  LET reversed == Reverse(name)
      s == IF Position(reversed, <<"aliyun", "inc">>) = 1
           THEN SpliceReplace(reversed, 1, <<"aliyuncs">>) ELSE reversed
  IN IF OssMatches(reversed) THEN NameFromLabels(Reverse(OssBody(s)))
                             ELSE None
-------------------------------------------------------------------------------
OciSuffix == <<<<"oci">>, <<"customer", "oci">>, <<"com">>>>
CloudSuffix == Dotted(<<"oraclecloud", "com">>)

OracleServices == {<<"objectstorage">>, <<"swiftobjectstorage">>}

OracleSuffix(suffix, ds) == IF ds THEN suffix ELSE OciSuffix

(* oracle_rewrite: an optional namespace, an optional compat, a service    *)
(* and a region, before one of the suffixes with or without a ds.          *)
OracleBody(body, suffix, ds) ==
  LET n == Len(body)
      store == <<"objectstorage">>
  IN IF n = 3 /\ body[1] = <<"compat">> /\ body[2] = store
       THEN Tail(body) \o <<<<"ds">>>> \o OciSuffix
     ELSE IF \/ n = 2 /\ body[1] \in OracleServices
             \/ n = 3 /\ body[2] \in OracleServices
             \/ n = 4 /\ body[2] = <<"compat">> /\ body[3] = store
       THEN body \o <<<<"ds">>>> \o OracleSuffix(suffix, ds)
     ELSE None

OracleRewrite(name) ==
  LET suffix == IF EndsWith(name, CloudSuffix) THEN CloudSuffix ELSE OciSuffix
      body == SubSeq(name, 1, Len(name) - Len(suffix))
      ds == Last(body) = <<"ds">>
  IN IF ~EndsWith(name, suffix) \/ Len(body) < 2 THEN None
     ELSE OracleBody(IF ds THEN Front(body) ELSE body, suffix, ds)
-------------------------------------------------------------------------------
FastlyRanges == {Block(151, 101, 0, 0, 16), Block(199, 232, 0, 0, 16),
                 Block(146, 75, 0, 0, 17)}
GithubPagesRange == Block(185, 199, 108, 0, 22)
FastlyRef == Dotted(<<"dualstack", "g", "shared", "global", "fastly", "net">>)
GithubPagesRef == Dotted(<<"dualstack", "github", "io">>)

FastlyHost(name) ==
  IF \E s \in {Dotted(<<"fastly", "net">>), Dotted(<<"fastlylb", "net">>)} :
       EndsWith(name, s)
  THEN <<<<"dualstack">>>> \o name
  ELSE None

Rewrite(id, name) ==
  CASE id = "akamai" -> AkamaiRewrite(name)
    [] id = "s3" -> S3Rewrite(name)
    [] id = "oss" -> OssRewrite(name)
    [] id = "oracleobjectstorage" -> OracleRewrite(name)
    [] id = "awsglb" -> AwsglbRewrite(name)
    [] id = "azurewebsites" -> AzureRewrite(name)
    [] id = "cachefly" -> CacheflyRewrite(name)
    [] id = "fastly" -> FastlyHost(name)

Rewritten(id, f) ==
  [i \in DOMAIN Hostnames(f) |-> Rewrite(id, Hostnames(f)[i])]

MatchRewrite == {"akamai", "s3", "oss", "oracleobjectstorage", "awsglb",
                 "azurewebsites"}

(* Fastly: the authority or an address decides before a hostname does; a   *)
(* host id, of one of the A records, is fused into what the reference has. *)
DetectFastly(f) ==
  IF \/ f.admin = Dotted(<<"hostmaster", "fastly", "com">>) /\ f.a # {}
     \/ IpMatches(f, FastlyRanges)
    THEN Asks("fuse", FastlyRef)
  ELSE IF Inside(f, GithubPagesRange) # {} THEN Asks("fuse", GithubPagesRef)
  ELSE DetectRewrite(Rewritten("fastly", f))

(* The zone is searched as text for msedge.net: the end of one label, and  *)
(* the start of the next.                                                  *)
UnderMsedge(zone) ==
  \E i \in 1..Len(zone) - 1 :
    Last(zone[i]) = "msedge" /\ Head(zone[i + 1]) = "net"

MsedgePrefixes == {"a", "b", "c", "l", "s", "k", "t", "spo"}

(* Msedge: the deepest CNAME target says by its first letters which prefix *)
(* the last octet of every A record goes to.                               *)
DetectMsedge(f) ==
  LET host == IF f.cnames = <<>> THEN f.name ELSE Last(f.cnames)
  IN IF UnderMsedge(f.zone) /\ Head(Head(host)) \in MsedgePrefixes
     THEN Pure("transform", Addrs(f.a))
     ELSE NotDetected

WpvipRange == Block(192, 0, 66, 0, 24)
CloudflareRange == Block(104, 16, 0, 0, 12)
CacheflyRange == Block(205, 234, 175, 0, 24)

(* Mutant: one address in the range has them all embedded.                 *)
DetectRangeForAll(block, f) ==
  IF Inside(f, block) = {} THEN NotDetected
  ELSE Pure("transform", Addrs(f.a))

(* Wpvip, Cloudflare and the addresses of Cachefly: one in the range is    *)
(* enough to match, and only those in the range are embedded.              *)
DetectRange(block, f) ==
  IF Inside(f, block) = {} THEN NotDetected
  ELSE Pure("transform", Inside(f, block))

(* Cachefly: by its hostname, else by its address.                         *)
DetectCachefly(f) ==
  IF FirstRewritten(Rewritten("cachefly", f)) # None
  THEN DetectRewrite(Rewritten("cachefly", f))
  ELSE DetectRange(CacheflyRange, f)

(* The ids that make knows.                                                *)
MakeIds == DOMAIN MatchConst \cup DOMAIN MatchBorrow \cup MatchRewrite
           \cup {"cloudflare", "fastly", "msedge", "wpvip", "cachefly"}

(* The buckets whose endpoints are compared below.  README says what       *)
(* becomes of those of two labels, and of labels that look like others.    *)
IsBucket(b) ==
  /\ b \in Name /\ Len(b) # 2
  /\ \A label \in ToSet(b) :
       /\ Head(label) \notin {"s3", "oss"}
       /\ label \notin OssRegions \cup {<<"dualstack">>, <<"compat">>}

IsRegion(r) == r \in Label /\ Len(r) = 3 /\ Head(r) \notin {"s3", "website"}

ASSUME CdnAssumption ==
  /\ Providers \subseteq MakeIds
  /\ Contexts \subseteq Facts
  /\ References \subseteq SUBSET [addr : IPv6, ttl : Nat]
  /\ \A b \in Buckets : IsBucket(b)
  /\ \A r \in Regions : IsRegion(r)

(* make: the provider of each id.                                          *)
Detect(id, f) ==
  CASE id \in DOMAIN MatchConst -> DetectConst(MatchConst[id], f)
    [] id \in DOMAIN MatchBorrow -> DetectBorrow(MatchBorrow[id], f)
    [] id \in MatchRewrite -> DetectRewrite(Rewritten(id, f))
    [] id = "cloudflare" -> DetectRange(CloudflareRange, f)
    [] id = "fastly" -> DetectFastly(f)
    [] id = "msedge" -> DetectMsedge(f)
    [] id = "wpvip" -> DetectRange(WpvipRange, f)
    [] id = "cachefly" -> DetectCachefly(f)

IsIpv4OnlyArpa(name) == name = Dotted(<<"ipv4only", "arpa">>)
-------------------------------------------------------------------------------
CdnInit == ChainInit /\ facts = [c \in Calls |-> NoFacts]

(* A call of synthesize with a context as SynthContext::new builds it.     *)
Start(c, f, chain) ==
  /\ Begin(c, [arpa |-> IsIpv4OnlyArpa(f.name), a |-> f.a, chain |-> chain,
               plans |-> [id \in Providers |-> Detect(id, f).plan]])
  /\ facts' = [facts EXCEPT ![c] = f]

Run(c) ==
  /\ ChainStep(c) \/ \E answer \in References : Resolve(c, answer)
  /\ UNCHANGED facts

CdnNext ==
  \E c \in Calls :
    \/ \E f \in Contexts, chain \in Chains : Start(c, f, chain)
    \/ Run(c)

CdnSpec == CdnInit /\ [][CdnNext]_<<chainVars, facts>>

(* The name a call asks the pool for, when its turn is a provider's.       *)
Target(c) ==
  IF Trying(c) /\ IdAt(c) \in Providers THEN Detect(IdAt(c), facts[c]).target
                                       ELSE None
-------------------------------------------------------------------------------
(* Storage endpoints in the forms the providers' documentation gives, with *)
(* the dual-stack name of each.                                            *)
Endpoint(provider, name, dual) ==
  [provider |-> provider, name |-> name, dual |-> dual]

Single == {b \in Buckets : Len(b) <= 1}

Amazon == Dotted(<<"amazonaws", "com">>)
China == Dotted(<<"amazonaws", "com", "cn">>)

S3Services == {<<"s3">>, <<"s3", "control">>, <<"s3", "accesspoint">>}
S3Website == <<"s3", "website">>

S3Dual(service, region) == <<service, <<"dualstack">>, region>>

S3Regional(services, suffix) ==
  {Endpoint("s3", b \o <<service, r>> \o suffix,
            b \o S3Dual(service, r) \o suffix) :
     b \in Single, r \in Regions, service \in services}

S3Endpoints ==
  {Endpoint("s3", b \o <<<<"s3">>>> \o Amazon,
            b \o S3Dual(<<"s3">>, UsEast1) \o Amazon) : b \in Buckets}
  \cup {Endpoint("s3", b \o <<<<"s3">> \o r>> \o Amazon,
                 b \o S3Dual(<<"s3">>, r) \o Amazon) :
          b \in Buckets, r \in Regions}
  \cup S3Regional(S3Services \cup {S3Website}, Amazon)
  \cup S3Regional(S3Services, China)
  \cup {Endpoint("s3", b \o <<<<"s3", "accelerate">>>> \o Amazon,
                 b \o <<<<"s3", "accelerate">>, <<"dualstack">>>> \o Amazon) :
          b \in Buckets}

(* The website endpoints of the regions that join the region by a dash.    *)
WebsiteEndpoints ==
  {Endpoint("s3", b \o <<S3Website \o r>> \o Amazon,
            b \o S3Dual(S3Website, r) \o Amazon) :
     b \in Single, r \in Regions \cup {UsEast1}}

Aliyun == Dotted(<<"aliyuncs", "com">>)
AliyunInc == <<<<"aliyun", "inc">>, <<"com">>>>
Oss == <<<<"oss">>>> \o Aliyun

(* Where the region comes first, the dual-stack name has no bucket.        *)
OssEndpoints ==
  {Endpoint("oss", b \o Oss, <<<<"cn", "hangzhou">>>> \o Oss) :
     b \in {b \in Single : \A label \in ToSet(b) : Len(label) <= 2}}
  \cup {Endpoint("oss", b \o <<<<"oss">> \o r>> \o Aliyun, <<r>> \o Oss) :
          b \in Single, r \in OssRegions}
  \cup {Endpoint("oss", b \o <<r, <<"oss">>>> \o suffix, b \o <<r>> \o Oss) :
          b \in Buckets, r \in OssRegions, suffix \in {Aliyun, AliyunInc}}

(* A namespace, a service and a region; and the S3-compatible form, which  *)
(* loses its mark where no namespace is in front of it.                    *)
OracleBodies ==
  {ns \o <<service, r>> :
     ns \in Single, service \in OracleServices, r \in Regions}

Compat == <<<<"compat">>, <<"objectstorage">>>>

CompatBodies ==
  {ns \o Compat \o <<r>> : ns \in Single \ {<<>>}, r \in Regions}

OracleDual(body, suffix) == body \o <<<<"ds">>>> \o suffix

OracleEndpoints ==
  {Endpoint("oracleobjectstorage", body \o suffix,
            OracleDual(body, OciSuffix)) :
     body \in OracleBodies \cup CompatBodies,
     suffix \in {OciSuffix, CloudSuffix}}
  \cup {Endpoint("oracleobjectstorage", Compat \o <<r>> \o suffix,
                 OracleDual(<<<<"objectstorage">>, r>>, OciSuffix)) :
          r \in Regions, suffix \in {OciSuffix, CloudSuffix}}
  \cup {Endpoint("oracleobjectstorage", OracleDual(body, suffix),
                 OracleDual(body, suffix)) :
          body \in OracleBodies, suffix \in {OciSuffix, CloudSuffix}}

Endpoints == S3Endpoints \cup OssEndpoints \cup OracleEndpoints

(* A rewritten storage endpoint is the dual-stack endpoint of the same     *)
(* bucket, service and region: what is resolved in place of the name       *)
(* serves what the name serves.                                            *)
RewritesReachTheEndpoint ==
  \A c \in Calls : \A e \in Endpoints :
    /\ Trying(c) /\ IdAt(c) = e.provider
    /\ facts[c].name = e.name /\ facts[c].cnames = <<>>
    => Target(c) = e.dual

Settling == (MatchRewrite \cup {"cachefly"}) \ {"akamai"}

(* The names, none of them an endpoint, of which this cannot be said: S3   *)
(* with a label dualstack for its region or as its top-level domain, and   *)
(* OSS with a region that is not in the table, or one beside a second oss. *)
S3Strays(name) ==
  LET reversed == Reverse(name)
      china == Position(reversed, <<"cn">>) = 0
  IN Position(IF china THEN Tail(reversed) ELSE reversed, <<"dualstack">>)
       \in {0, 2}

OssStrays(name) ==
  LET s == Reverse(name)
  IN IsNamed(s) /\ IF IsNative(s) THEN Len(s) > 3
                                  ELSE OssListed(s) \notin OssRegions

Strays(id, name) == \/ id = "s3" /\ S3Strays(name)
                    \/ id = "oss" /\ OssStrays(name)

(* A name that already is what a provider rewrites to is left alone or not *)
(* recognised, and no rewrite of a name, however few labels it has,        *)
(* indexes past their end: a client that asks for the dual-stack name, or  *)
(* a CNAME that points to it, is not sent to a third name.                 *)
RewritesSettle ==
  \A c \in Calls : \A h \in ToSet(Hostnames(facts[c])) :
    (/\ Target(c) # None
     /\ IdAt(c) \in Settling
     /\ Target(c) = Rewrite(IdAt(c), h)) =>
      /\ Panic \notin ToSet(Target(c))
      /\ \/ Rewrite(IdAt(c), Target(c)) \in {None, Target(c)}
         \/ Strays(IdAt(c), h)

OwnRange == [cloudflare |-> CloudflareRange, wpvip |-> WpvipRange,
             cachefly |-> CacheflyRange]

(* A name some of whose A records are a provider's and some are not: those *)
(* that are not reach the client behind the translator or not at all,      *)
(* never embedded into the prefix of the provider.                         *)
EmbedsOnlyItsOwnRange ==
  \A c \in Calls : \A r \in records[c] :
    winner[c] \in DOMAIN OwnRange /\ r.addr.via = "transform" =>
      InCidr(r.addr.of, OwnRange[winner[c]])

(* What cdn.rs says of the rewrite by itself: an S3 endpoint is rewritten  *)
(* into its dual-stack equivalent, website endpoints among them.           *)
S3ReachesTheEndpoint ==
  \A c \in Calls : \A e \in WebsiteEndpoints :
    Trying(c) /\ IdAt(c) = "s3" /\ facts[c].name = e.name =>
      Target(c) = e.dual
===============================================================================
