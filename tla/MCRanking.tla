----------------------------- MODULE MCRanking -----------------------------
(* A target that may run PHP behind nginx: the page, the cookie, nmap, the     *)
(* error page and a probe may each say so.  The system's rules replace the     *)
(* header rule of the embedded ones.                                           *)
EXTENDS Ranking, TLC

rule(id, source, tech, category, layer, confidence) ==
  [id |-> id, source |-> source, tech |-> tech, category |-> category,
   layer |-> layer, confidence |-> confidence]

MCEmbedded == <<rule("h", "header", "php", "server", "edge", 30),
                rule("e", "errorpage", "php", "lang", "backend", 50),
                rule("a", "activeprobe", "php", NoCategory, "backend", 90)>>
MCSystem == <<rule("h", "header", "php", "lang", "backend", 40)>>
MCUser == <<rule("w", "waf", "shield", "waf", "edge", 80)>>
MCDetections == <<rule("n", "nmap", "php", "server", "backend", 30)>>

term(path, kind, base, tags) == [path |-> path, kind |-> kind, base |-> base, tags |-> tags]
MCCorpus == <<term(<<"d">>, "dir", 8, {"generic"}), term(<<"s">>, "file", 6, {"php"})>>
MCSuffixes == <<"bak">>
MCSubName == <<"d">>
MCExtensions == "php" :> <<"php">>

MCNmapPaths == {<< <<"s">> >>}
MCCompanions == {<< <<"d">>, <<"s">> >>}
MCSiblings == {<< <<"d">>, <<"e">> >>}
MCShape(path) == Len(path)
\* A link into the directory and a path of the sitemap; the user's patterns: s,
\* wherever it is, and d*, in the root.
MCSeeds == {[dir |-> "/d", path |-> <<"x">>, kind |-> "file", base |-> 10, crawl |-> TRUE],
            [dir |-> "/", path |-> <<"s">>, kind |-> "file", base |-> 9, crawl |-> FALSE]}
MCPatterns == {[covers |-> {<<"/", <<"s">> >>, <<"/d", <<"s">> >>}, names |-> <<"/", <<"s">> >>],
               [covers |-> {<<"/", <<"d">> >>, <<"/", <<"d", "php">> >>}, names |-> <<>>]}
============================================================================
