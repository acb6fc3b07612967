--------------------------- MODULE MCEvidenceGate ---------------------------
(* A repository with one bundle, one summary doc, an ordinary document and *)
(* a source file, and the edits made to it in a working copy and through   *)
(* pull requests.                                                          *)
EXTENDS EvidenceGate

MCMdName == {"README.md", "a.md", "b.md", "evidence-baseline.md"}
MCHiddenName == {".DS_Store", ".draft"}
MCOddPart == {"a:b"}
MCDocOrder == <<<<"docs", "a.md">>, <<"docs", "b.md">>,
                <<"docs", "evidence", "b1", "README.md">>>>

File(body) == [kind |-> "file", body |-> body]
Dir == [kind |-> "dir"]
Link == [kind |-> "link"]
Pipe == [kind |-> "pipe"]

B1 == <<"docs", "evidence", "b1">>
In(rel) == B1 \o rel

Sum(rel, hash) == [form |-> "text", hex |-> TRUE, marked |-> FALSE,
                   rel |-> rel, hash |-> hash]
Form(form) == [Sum(<<"raw.log">>, "x") EXCEPT !.form = form]

SumRaw == Sum(<<"raw.log">>, "x")
SumData == Sum(<<"sub", "data.log">>, "y")

Line(kind) == [kind |-> kind, cols |-> Columns, lane |-> kind,
               raw |-> {}, summary |-> {}]
Row(lane, raw, summary) == [kind |-> "row", cols |-> Columns, lane |-> lane,
                            raw |-> raw, summary |-> summary]
Doc(n) == <<"docs", n>>
FirstRow == Row("fuzz", {B1 \o <<"">>, <<"go", "test">>}, {Doc("a.md")})
Index(rows) ==
  File(<<Line("heading"), Line("index"), Line("text"), Line("header"), Line("dashes")>>
       \o rows \o <<Line("heading"), Line("header")>>)

Comment == [kind |-> "comment", ref |-> <<>>]
Entry(ref) == [kind |-> "ref", ref |-> ref]

Sums(lines) == <<In(<<"SHA256SUMS">>), File(lines)>>
BaselineTo(node) == <<Baseline, node>>
ManifestTo(lines) == <<Manifest, File(<<Comment>> \o lines)>>

Start == {<<<<"docs">>, Dir>>,
          BaselineTo(Index(<<FirstRow>>)),
          ManifestTo(<<Entry(Doc("a.md"))>>),
          <<Doc("a.md"), File("x")>>,
          <<Doc("notes.txt"), File("y")>>,
          <<<<"main.go">>, File("y")>>,
          <<EvidenceDir, Dir>>,
          <<B1, Dir>>,
          <<In(<<"README.md">>), File("x")>>,
          Sums(<<SumRaw, SumData>>),
          <<In(<<"raw.log">>), File("x")>>,
          <<In(<<"sub">>), Dir>>,
          <<In(<<"sub", "data.log">>), File("y")>>}

MCIntact0 == [p \in {s[1] : s \in Start} |-> (CHOOSE s \in Start : s[1] = p)[2]]

\* Anything may be put at these paths.
Places == {Doc("a.md"), Doc("b.md"), EvidenceDir, B1,
           <<"docs", "evidence", "notes.txt">>,
           <<"docs", "evidence", ".draft">>,
           <<"docs", "evidence", "a:b">>, In(<<"a:b">>),
           In(<<"README.md">>), In(<<"SHA256SUMS.sig">>),
           In(<<"raw.log">>), In(<<"sub">>), In(<<".DS_Store">>),
           In(<<"sub", "data.log">>), In(<<"sub", "README.md">>),
           In(<<"sub", ".DS_Store">>), In(<<".DS_Store", "x">>)}

\* The paths whose text is parsed: no arbitrary file is put there.
Parsed == {Baseline, Manifest, In(<<"SHA256SUMS">>), <<"docs">>}

SumEdits ==
  {Sums(lines) : lines \in
     {<<>>, <<SumRaw>>, <<SumData, SumRaw>>, <<SumRaw, SumData, SumRaw>>,
      <<SumRaw, Form("blank"), SumData>>, <<SumRaw, SumData, Form("binary")>>,
      <<SumRaw, SumData, Form("other")>>,
      <<[SumRaw EXCEPT !.hash = "y"], SumData>>,
      <<[SumRaw EXCEPT !.hex = FALSE, !.hash = "X"], SumData>>,
      <<SumRaw, [SumData EXCEPT !.marked = TRUE]>>,
      <<SumRaw, SumData, Sum(<<"README.md">>, "x")>>,
      <<SumRaw, SumData, Sum(<<"sub", "README.md">>, "x")>>,
      <<SumRaw, SumData, Sum(<<"sub">>, "x")>>,
      <<SumRaw, SumData, Sum(<<"a:b">>, "x")>>,
      <<SumRaw, Sum(<<"sub", ".", "data.log">>, "y")>>,
      <<SumRaw, SumData, Sum(<<"..", "notes.txt">>, "x")>>,
      <<SumRaw, SumData, Sum(<<"", "raw.log">>, "x")>>,
      <<SumRaw, SumData, Sum(<<"raw.log", "">>, "x")>>}}

RowEdits ==
  {<<FirstRow, Row("bench", raw, {})>> : raw \in
     {{}, {In(<<"raw.log">>)}, {<<".", ".">> \o In(<<"sub">>)},
      {<<"docs", "evidence", "notes.txt">>}, {<<"docs", "evidence", "notes.txt", "">>},
      {<<"docs", "evidence", ".draft">>}, {<<"docs", "evidence", "">>},
      {<<"docs", "evidence", "evidence">>}, {<<"docs", "">>},
      {<<"docs", "..", "docs", "evidence", "b1">>}, {<<"", "docs", "a.md">>},
      {<<"", ".", "docs", "a.md">>}, {<<"docs", "a:b">>}, {<<"docs", "", "a.md">>}}}
  \cup {<<FirstRow, Row("bench", raw, {Doc("b.md")})>> : raw \in
          {{}, {In(<<"raw.log">>)}, {<<"docs", "evidence", "notes.txt">>}}}
  \cup {<<FirstRow, Row("bench", {}, s)>> : s \in
          {{<<".", "docs", "a.md">>}, {<<"docs", "a.md", "">>},
           {In(<<"README.md">>)}, {<<"docs", "", "b.md">>}, {<<"">>}}}
  \cup {<<>>, <<FirstRow, FirstRow>>, <<FirstRow, Row("", {}, {})>>,
        <<FirstRow, [Row("bench", {}, {}) EXCEPT !.cols = 4]>>}

IndexEdits ==
  {BaselineTo(Index(rows)) : rows \in RowEdits}
  \cup {BaselineTo(File(lines)) : lines \in
          {<<>>, <<Line("index")>>, <<Line("index"), Line("header")>>,
           <<Line("index"), Line("header"), FirstRow>>,
           <<Line("index"), Line("dashes"), FirstRow>>,
           <<Line("index"), Line("header"), [Line("dashes") EXCEPT !.cols = 4], FirstRow>>,
           <<Line("heading"), Line("header"), Line("dashes"), FirstRow>>,
           <<Line("index"), Line("header"), Line("dashes"), FirstRow,
             Line("index"), Row("bench", {}, {Doc("b.md")})>>}}

ManifestEdits ==
  {ManifestTo(lines) : lines \in
     {<<>>, <<Entry(Doc("a.md")), Entry(Doc("b.md"))>>,
      <<Entry(Doc("b.md")), Entry(Doc("a.md"))>>,
      <<Entry(Doc("a.md")), Entry(Doc("a.md"))>>,
      <<Entry(Doc("a.md")), Comment>>,
      <<Entry(Doc("a.md")), Entry(In(<<"README.md">>))>>,
      <<[kind |-> "padded", ref |-> Doc("a.md")]>>}}

MCEdits ==
  (Places \X {File("x"), Dir, Link})
  \cup ({Doc("a.md"), In(<<"raw.log">>), In(<<"sub", "data.log">>)} \X {File("y")})
  \cup (Parsed \X {Dir, Link})
  \cup ({Doc("a.md"), In(<<"raw.log">>), In(<<"SHA256SUMS">>)} \X {Pipe})
  \cup SumEdits \cup IndexEdits \cup ManifestEdits

\* Pull requests: fewer edits, so that there can be more of them in a row.
Note == <<"docs", "evidence", "note.md">>

MCPullEdits ==
  ({Doc("a.md"), Doc("b.md")} \X {File("x"), File("y"), Link, Dir})
  \cup ({<<"main.go">>, Doc("notes.txt"), Note, In(<<"sub", "README.md">>)} \X {File("x")})
  \cup ({In(<<"raw.log">>)} \X {File("x"), File("y")})
  \cup ({B1, EvidenceDir, Manifest} \X {Link})
  \cup {Sums(<<SumRaw>>), Sums(<<SumData>>), Sums(<<SumRaw, SumData>>)}
  \cup {BaselineTo(Index(<<FirstRow>> \o more)) : more \in
          {<<>>, <<Row("bench", {}, {Doc("b.md")})>>, <<Row("bench", {Note}, {})>>}}
  \cup {ManifestTo(<<Entry(Doc("a.md"))>>),
        ManifestTo(<<Entry(Doc("a.md")), Entry(Doc("b.md"))>>)}

=============================================================================
