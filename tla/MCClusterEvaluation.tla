------------------------ MODULE MCClusterEvaluation ------------------------
(* Data sets of up to four signals that meet every rule of the policy, and  *)
(* the threshold sweep.                                                     *)
EXTENDS ClusterEvaluation, TLC

\* " 7" is 7 with a blank before it, " " a blank.
MCStrip == ("7" :> "7") @@ (" 7" :> "7") @@ ("8" :> "8") @@ (" " :> "")

\* QUAKE differs from quake in case only, !!! from !! in width.
MCFold == ("" :> "") @@ ("quake" :> "quake") @@ ("QUAKE" :> "quake") @@ ("quakes" :> "quakes")
          @@ ("storm" :> "storm") @@ ("tremor" :> "tremor") @@ ("!!" :> "!!") @@ ("!!!" :> "!!")
Texts == {"quake", "quakes", "storm", "tremor", "!!"}
MCHamming == [p \in Texts \X Texts |->
    IF p[1] = p[2] THEN 0
    ELSE IF {p[1], p[2]} = {"quake", "quakes"} THEN 7
    ELSE IF {p[1], p[2]} \cap {"storm", "!!"} # {} THEN 31 ELSE 14]
MCCosine == [p \in {"v", "w", "x"} \X {"v", "w", "x"} |->
    IF p[1] = p[2] THEN 100
    ELSE IF {p[1], p[2]} = {"v", "w"} THEN 98
    ELSE IF {p[1], p[2]} = {"v", "x"} THEN 57 ELSE 30]

Signal(platform, external, url, text, vector, hour, key, outcome) ==
    [platform |-> platform, external |-> external, url |-> url, text |-> text,
     vector |-> vector, hour |-> hour, key |-> key, outcome |-> outcome]

Wide == {
    Signal("p", "7",  "u", "quake",  "v", 0,   "A", "clustered"),
    Signal("p", " 7", "r", "tremor", "w", 50,  "A", "clustered"),
    Signal("p", " 7", "s", "storm",  "x", 90,  "B", "clustered"),
    Signal("q", "7",  "u", "!!",     "x", 70,  "A", "unassigned"),
    Signal("p", "8",  "",  "QUAKE",  "",  20,  "A", "clustered"),
    Signal("p", "",   "",  "quakes", "w", 10,  "B", "clustered"),
    Signal("p", " ",  "",  "quake",  "w", 100, "",  "ambiguous"),
    Signal("q", " ",  "",  "!!!",    "v", 5,   "B", "clustered"),
    Signal("q", "",   "",  "",       "x", 60,  "C", "unassigned"),
    Signal("q", " ",  "v", "storm",  "w", 30,  "C", "clustered")}
Narrow == {
    Signal("p", "", "u", "quake",  "v", 0,  "A", "clustered"),
    Signal("p", "", "",  "quake",  "",  70, "A", "clustered"),
    Signal("p", "", "u", "storm",  "w", 40, "B", "clustered"),
    Signal("p", "", "",  "tremor", "",  80, "",  "ambiguous")}
MCDatasets == [1..2 -> Wide] \cup [1..3 -> Wide] \cup [1..4 -> Narrow]

MCPolicies == {DefaultPolicy,
    [DefaultPolicy EXCEPT !.duplicate = 8], [DefaultPolicy EXCEPT !.alike = 92],
    [DefaultPolicy EXCEPT !.unlike = 60], [DefaultPolicy EXCEPT !.margin = 6],
    [DefaultPolicy EXCEPT !.window = 48], [DefaultPolicy EXCEPT !.low = 20]}
=============================================================================
