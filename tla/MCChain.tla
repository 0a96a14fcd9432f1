-------------------------------- MODULE MCChain -------------------------------
(* Small instances of Cdn, and the chain in it, for TLC: one call at a     *)
(* time, over names, addresses and configurations that make the providers  *)
(* overlap.                                                                *)
EXTENDS Cdn

Some(ids, wanted, cap) == [ids |-> ids, wanted |-> wanted, cap |-> cap]

(* The order of config.example.toml.                                       *)
Shipped ==
  <<"shopify", "webflow", "cloudflare", "fastly", "akamai", "cloudfront", "s3",
    "oss", "alicdn", "oracleobjectstorage", "msedge", "bunnycdn", "blazingcdn",
    "gcorecdn", "cachefly", "cdn77", "awsglb", "weebly", "sucuri", "netlify",
    "bearblog", "azurewebsites", "wpvip", "nat64">>

(* Orders Chain::build accepts, one of them with an id twice, one with a   *)
(* typing mistake, and two in which a generic provider shadows its own.    *)
AllConfigs ==
  {Some(Shipped, TRUE, 1),
   Some(<<"webflow", "cloudflare", "bunnycdn", "webflow", "nat64">>, TRUE,
        NoCap),
   Some(<<"shopify", "cloudflare", "nat64">>, FALSE, 1),
   Some(<<"nat64", "fastly">>, TRUE, 2),
   Some(<<"cloudflare", "fastly">>, TRUE, NoCap),
   Some(<<"cloudflare", "webflow", "nat64">>, TRUE, 1),
   Some(<<"cloudflare", "shopify">>, FALSE, NoCap),
   Some(<<"cloudfare">>, FALSE, 1)}

Edge == <<104, 16, 132, 229>>      \* Cloudflare's range
Shared == <<151, 101, 1, 140>>     \* Fastly's
Pages == <<185, 199, 111, 133>>    \* GitHub Pages
Cloud == <<13, 33, 0, 1>>          \* CloudFront's
Vips == <<192, 0, 66, 5>>          \* WordPress VIP's
Fly == <<205, 234, 175, 136>>      \* CacheFly's
Origin == <<198, 20, 0, 1>>        \* nobody's, next to the benchmarking block
Private == <<100, 64, 0, 1>>
ArpaNet == <<192, 0, 0, 170>>      \* what ipv4only.arpa has

AllIPv4 == {Edge, Shared, Pages, Cloud, Vips, Fly, Origin, Private, ArpaNet}

AllRoutable == {ip \in AllIPv4 : IsGloballyRoutable(ip)}

GlobalV6 == <<9734, 18176, 0, 0, 0, 0, 26640, 33765>>
UlaV6 == <<64768, 100, 0, 0, 0, 0, 0, 1>>

AllIPv6 == {GlobalV6, UlaV6}

AllGlobal == {ip \in AllIPv6 : IsGlobalUnicastV6(ip)}
-------------------------------------------------------------------------------
Media == Dotted(<<"media">>)

(* A bucket in the path, one before the endpoint, and one with dots in it. *)
AllBuckets == {<<>>, Media, Dotted(<<"media", "example", "org">>)}

AllRegions == {<<"us", "west", "2">>, <<"eu", "central", "1">>,
               <<"cn", "north", "1">>}
-------------------------------------------------------------------------------
Named(name) == [NoFacts EXCEPT !.name = name]

Rec(addr, ttl) == [addr |-> addr, ttl |-> ttl]

(* Names with too few labels for the suffix they have, and names that      *)
(* already have their dual-stack form.                                     *)
OddNames ==
  {<<>>, Dotted(<<"com">>), Aliyun, AliyunInc, Amazon, China, CloudSuffix,
   OciSuffix, Dotted(<<"cachefly", "net">>), Dotted(<<"akamai", "net">>),
   Dotted(<<"log">>) \o Aliyun, Dotted(<<"www", "log">>) \o Aliyun,
   <<<<"media", "my", "bucket">>>> \o Oss, <<<<"oss", "cn">>>> \o Aliyun,
   <<<<"oss", "">>>> \o Aliyun, Dotted(<<"s3", "dualstack">>) \o Amazon,
   Dotted(<<"lbr", "s3">>) \o <<<<"console", "l">>>> \o Amazon,
   <<<<"s3", "1", "w">>>> \o Amazon,
   Dotted(<<"e1", "cj", "akamaiedge", "net">>),
   Dotted(<<"a1", "awsglobalaccelerator", "com">>),
   Dotted(<<"waws", "azurewebsites", "windows", "net">>),
   <<<<"vip1">>, <<"g", "anycast1">>>> \o Dotted(<<"cachefly", "net">>)}

FromNames ==
  {Named(name) : name \in OddNames \cup {e.name : e \in Endpoints}
                          \cup {e.dual : e \in Endpoints}}

(* A name without an address, with some of one provider and some of        *)
(* another or of none, with TTLs that disagree, and with a private one.    *)
AddressSets ==
  {{}, {Rec(Edge, 3)}, {Rec(Edge, 3), Rec(Origin, 2)},
   {Rec(Edge, 2), Rec(Shared, 3)}, {Rec(Pages, 3)}, {Rec(Cloud, 1)},
   {Rec(Vips, 3), Rec(Private, 3)}, {Rec(Fly, 2), Rec(Origin, 3)},
   {Rec(Private, 1)}}

Www == Dotted(<<"www", "example">>)

Aliases ==
  {<<>>, <<Dotted(<<"proxy", "webflow", "com">>)>>,
   <<Dotted(<<"shops", "myshopify", "com">>)>>,
   <<Dotted(<<"x", "fastly", "net">>)>>,
   <<Dotted(<<"cdn", "example">>), Dotted(<<"example">>) \o BunnyCdn>>,
   <<<<<<"a", "0001">>, <<"a", "msedge">>, <<"net">>>>>>}

FromAliases ==
  {[NoFacts EXCEPT !.name = Www, !.cnames = aliases, !.a = a] :
     aliases \in Aliases, a \in AddressSets}

FromAuthority ==
  {[NoFacts EXCEPT !.name = Www, !.a = a, !.admin = admin] :
     a \in AddressSets,
     admin \in {Dotted(<<"hostmaster", "fastly", "com">>),
                Dotted(<<"admin", "cdn77", "com">>)}}
  \cup {[NoFacts EXCEPT !.name = Www, !.a = {Rec(Origin, 3)},
                        !.cnames = <<<<<<prefix, "0001">>, <<"net">>>>>>,
                        !.zone = <<<<"a", "msedge">>, <<"net">>>>] :
          prefix \in {"a", "spo", "x"}}

FromArpa == {[NoFacts EXCEPT !.name = Dotted(<<"ipv4only", "arpa">>),
                             !.a = {Rec(ArpaNet, 3)}]}

AllContexts == FromNames \cup FromAliases \cup FromAuthority \cup FromArpa

WebsiteContexts == {Named(e.name) : e \in WebsiteEndpoints}

AllReferences ==
  {{}, {Rec(GlobalV6, 2)}, {Rec(UlaV6, 3)}, {Rec(GlobalV6, 3), Rec(UlaV6, 1)}}
===============================================================================
