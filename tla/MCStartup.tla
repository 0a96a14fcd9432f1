------------------------------- MODULE MCStartup ------------------------------
(* A start from a sound configuration and from ones that differ from it in *)
(* a way the start looks at, with three lists to load.                     *)
EXTENDS Startup

Com == <<"example", "com">>
Ads == <<"ads", "example", "com">>
Eu == <<"eu", "ads", "example", "com">>
Net == <<"example", "net">>
Cut == <<"example", "co">>

IsName(name) == [ip |-> FALSE, plain |-> TRUE, name |-> name]
Sink == [ip |-> TRUE, plain |-> FALSE, name |-> <<"localhost">>]

Text(mark, tokens, tail) ==
  [mark |-> mark, star |-> FALSE, words |-> tokens, tail |-> tail]

Three == <<"hosts", "adblock", "plain">>

(* An exception of one list frees what another blocks, two block the same  *)
(* domain, one blocks below an exception, and there are lines that are     *)
(* ignored and skipped.                                                    *)
TheLists ==
  [hosts |->
     <<Text("comment", <<IsName(Net)>>, ""),
       Text("", <<Sink, IsName(<<"localhost">>), IsName(Eu), IsName(Net)>>,
            "")>>,
   adblock |->
     <<Text("||", <<IsName(Com)>>, "^"), Text("@@", <<IsName(Ads)>>, "^"),
       Text("||", <<IsName(Net)>>, "more")>>,
   plain |->
     <<Text("", <<IsName(Ads)>>, "more"), Text("", <<IsName(Net)>>, ""),
       Text("", <<IsName(Com)>>, "")>>]

CutLines == {Text("||", <<IsName(Cut)>>, ""), Text("", <<>>, "")}

AllQueries ==
  {<<>>, <<"com">>, Com, Ads, Eu, Net, Cut, <<"www">> \o Ads,
   <<"www", "example", "com">>, <<"myexample", "com">>}

(* Prefixes of a 3-bit word: none of it, one bit of it, all of it twice,   *)
(* with bits set below, and one that is too long.                          *)
Prefixed(bits, prefix) ==
  [valid |-> TRUE, addr |-> [v6 |-> TRUE, bits |-> bits], prefix |-> prefix]

WellKnown == <<100, 65435, 0, 0, 0, 0, 0, 0>>

Sound == [listenV6 |-> TRUE, upstreams |-> 2, prefix |-> WellKnown,
          networks |-> {Prefixed({0, 2}, 1), Prefixed({1}, Bare)},
          ids |-> <<"shopify", "cloudflare", "nat64">>, lists |-> TRUE,
          metrics |-> TRUE, ui |-> TRUE]

Small == [Sound EXCEPT !.lists = FALSE]

AllConfigs ==
  {Sound,
   [Small EXCEPT !.networks = {Prefixed({1}, 0)}],
   [Small EXCEPT !.networks = {Prefixed({0}, 3), Prefixed({1, 2}, 2)}],
   [Small EXCEPT !.networks = {}, !.ui = FALSE],
   [Small EXCEPT !.metrics = FALSE],
   [Small EXCEPT !.listenV6 = FALSE],
   [Small EXCEPT !.upstreams = 0],
   [Small EXCEPT !.networks = {Prefixed({1}, 4), Prefixed({1}, 1)}],
   [Small EXCEPT !.networks = {[Prefixed({1}, 1) EXCEPT !.addr.v6 = FALSE]}],
   [Small EXCEPT !.networks = {[Prefixed({1}, 1) EXCEPT !.valid = FALSE]}],
   [Small EXCEPT !.ids = <<"cloudflare", "shopify", "nat64">>],
   [Small EXCEPT !.ids = <<"unknown">>]}
  \cup {[Small EXCEPT !.prefix = p] :
          p \in {<<100, 65435, 0, 0, 0, 0, 0, 1>>,
                 <<100, 65435, 0, 0, 0, 0, 1, 0>>,
                 <<8193, 3512, 0, 0, 0, 65535, 0, 0>>,
                 <<65152, 0, 0, 0, 0, 0, 0, 0>>, <<65216, 0, 0, 0, 0, 0, 0, 0>>,
                 <<64768, 0, 0, 0, 0, 0, 0, 0>>, <<65282, 0, 0, 0, 0, 0, 0, 0>>,
                 <<0, 0, 0, 0, 0, 0, 0, 0>>, <<0, 0, 0, 0, 0, 0, 0, 1>>}}

AllWorlds ==
  {[down |-> d, taken |-> t] :
     d \in {{}, {2}}, t \in {{}, {"udp"}, {"tcp"}, {"metrics", "ui"}}}

SomeAddresses == {<<8, 8, 8, 8>>, <<0, 0, 0, 1>>, <<255, 255, 255, 255>>}
===============================================================================
