------------------------------ MODULE XmlText ------------------------------
(***************************************************************************)
(* How tinyxml2 reads and writes a document: XMLDocument::Parse over the   *)
(* contents of a file, and XMLPrinter.  A file is a sequence of symbols: a *)
(* symbol of the markup ("<", "<!--", "/>"), a name, a white space, or a   *)
(* character of a text.  An entity is three symbols, "&", its name, ";".   *)
(* A position is a number; 0 stands for the null pointer.                  *)
(*                                                                         *)
(* The default settings: entities are processed, white space is preserved, *)
(* the printer is not compact.  Four blanks of indentation are one, and    *)
(* line numbers and the byte order mark are left out.                      *)
(***************************************************************************)
EXTENDS XmlTree

CONSTANTS
  Name,      \* the names of elements and attributes
  MaxDepth   \* TINYXML2_MAX_ELEMENT_DEPTH

White == {" ", "LF", "CR"}

Entity == "amp" :> "&" @@ "lt" :> "<" @@ "gt" :> ">" @@ "quot" :> "\"" @@ "apos" :> "'"

(* The characters that numeric references stand for here.                  *)
Character == "10" :> "LF" @@ "13" :> "CR" @@ "38" :> "&"

Header == "<?" :> "declaration" @@ "<!--" :> "comment" @@ "<![CDATA[" :> "text"
            @@ "<!" :> "unknown" @@ "<" :> "element"

Footer == "declaration" :> "?>" @@ "comment" :> "-->" @@ "text" :> "]]>" @@ "unknown" :> ">"

(* The symbol at a position, or "" for the terminating null.               *)
At(f, p) == IF p \in DOMAIN f THEN f[p] ELSE ""

RECURSIVE SkipWhiteSpace(_, _)
SkipWhiteSpace(f, p) == IF At(f, p) \in White THEN SkipWhiteSpace(f, p + 1) ELSE p

-----------------------------------------------------------------------------
(* Strings.                                                                *)

(* A numeric reference; "&#" at the end loses its ampersand.               *)
GetCharacterRef(s, p) ==
  IF At(s, p + 2) \in DOMAIN Character /\ At(s, p + 3) = ";"
  THEN [text |-> <<Character[s[p + 2]]>>, next |-> p + 4]
  ELSE [text |-> IF At(s, p + 2) = "" THEN << >> ELSE <<"&">>, next |-> p + 1]

(* What is at position p, translated in place.  An ampersand that begins   *)
(* no entity is stepped over on both sides, so that what the buffer holds  *)
(* at the place of writing, w, is taken for it: the ampersand itself, or,  *)
(* behind an entity, some other character of the text.                     *)
Translated(s, p, w, entities) ==
  CASE s[p] = "CR" -> [text |-> <<"LF">>, next |-> IF At(s, p + 1) = "LF" THEN p + 2 ELSE p + 1]
    [] s[p] = "LF" -> [text |-> <<"LF">>, next |-> IF At(s, p + 1) = "CR" THEN p + 2 ELSE p + 1]
    [] s[p] = "&" /\ entities ->
         IF At(s, p + 1) = "#" THEN GetCharacterRef(s, p)
         ELSE IF At(s, p + 1) \in DOMAIN Entity /\ At(s, p + 2) = ";"
         THEN [text |-> <<Entity[s[p + 1]]>>, next |-> p + 3]
         ELSE [text |-> <<s[w]>>, next |-> p + 1]
    [] OTHER -> [text |-> <<s[p]>>, next |-> p + 1]

RECURSIVE TranslateFrom(_, _, _, _)
TranslateFrom(s, p, done, entities) ==
  IF p > Len(s) THEN done
  ELSE LET t == Translated(s, p, Len(done) + 1, entities)
       IN TranslateFrom(s, t.next, done \o t.text, entities)

GetStr(s, entities) == TranslateFrom(s, 1, << >>, entities)

(* ParseText: from p up to one of the symbols in ends.                     *)
ParseText(f, p, ends, entities) ==
  LET found == {i \in p .. Len(f) : f[i] \in ends}
      e == CHOOSE i \in found : \A j \in found : i <= j
  IN IF found = {} THEN [end |-> 0, text |-> << >>]
     ELSE [end |-> e, text |-> GetStr(SubSeq(f, p, e - 1), entities)]

-----------------------------------------------------------------------------
(* Parsing.  The state of a parser is the heap, the position, the error,   *)
(* the depth, and what the last node told its parent: the end tag it met.  *)

Failed(s, error) == [s EXCEPT !.p = 0, !.error = error]

(* The attribute whose name is at q.                                       *)
ParseAttribute(f, s, n, q) ==
  LET eq == SkipWhiteSpace(f, q + 1)
      quote == SkipWhiteSpace(f, eq + 1)
      v == ParseText(f, quote + 1, {At(f, quote)}, TRUE)
  IN IF \/ At(f, eq) # "=" \/ At(f, quote) \notin {"\"", "'"} \/ v.end = 0
        \/ FindAttribute(s.h.node[n], f[q]) # {}
     THEN Failed(s, "PARSING_ATTRIBUTE")
     ELSE [s EXCEPT !.h = SetAttribute(@, n, f[q], v.text), !.p = v.end + 1]

RECURSIVE ParseAttributes(_, _, _)
ParseAttributes(f, s, n) ==
  LET q == SkipWhiteSpace(f, s.p)
  IN CASE s.p = 0 -> s
       [] s.p # 0 /\ At(f, q) \in Name -> ParseAttributes(f, ParseAttribute(f, s, n, q), n)
       [] s.p # 0 /\ At(f, q) = ">" -> [s EXCEPT !.p = q + 1]
       [] s.p # 0 /\ At(f, q) = "/>" -> [s EXCEPT !.p = q + 1, !.closing = "closed"]
       [] OTHER -> Failed(s, "PARSING_ELEMENT")

(* The headers are tried from the longest to the shortest.                 *)
Identify(f, s, d) ==
  LET q == SkipWhiteSpace(f, s.p)
      markup == At(f, q) \in DOMAIN Header
      h == CreateUnlinkedNode(s.h, d, IF markup THEN Header[f[q]] ELSE "text", << >>)
  IN [s EXCEPT !.p = IF markup THEN q + 1 ELSE s.p,
               !.h = [h EXCEPT !.node[Alloc(s.h)].cdata = markup /\ f[q] = "<![CDATA["],
               !.closing = "open", !.end = << >>]

(* XMLText, XMLComment, XMLDeclaration, XMLUnknown.  Plain text ends       *)
(* before the next markup, which must not be the end of the file.          *)
ParseLeaf(f, s, n) ==
  LET kind == s.h.node[n].kind
      plain == kind = "text" /\ ~s.h.node[n].cdata
      t == ParseText(f, s.p, IF plain THEN DOMAIN Header ELSE {Footer[kind]}, plain)
      last == t.end = Len(f) /\ At(f, t.end) = "<"
  IN CASE t.end = 0 -> Failed(s, IF s.h.node[n].cdata THEN "PARSING_cdata" ELSE "PARSING_" \o kind)
       [] plain /\ last -> [s EXCEPT !.p = 0]
       [] OTHER -> [s EXCEPT !.h.node[n].value = t.text,
                             !.p = IF plain THEN t.end ELSE t.end + 1]

(* A declaration must be in the document, among declarations.              *)
WellLocated(h, p) ==
  /\ h.node[p].kind = "document"
  /\ h.node[p].firstChild # Null =>
       IsKind(h, h.node[p].firstChild, "declaration") /\ IsKind(h, h.node[p].lastChild, "declaration")

(* A faulty check that takes a missing end tag for an empty element.       *)
WrongName(s, n) == s.end # << >> /\ (s.closing # "open" \/ s.end # s.h.node[n].value)

Mismatch(s, n) ==
  IF s.end = << >> THEN s.closing = "open" ELSE s.closing # "open" \/ s.end # s.h.node[n].value

RECURSIVE ParseElement(_, _, _), ParseContent(_, _, _), ParseDeep(_, _, _)
RECURSIVE ParseChildren(_, _, _), ParseNode(_, _, _, _), Attach(_, _, _, _)

ParseElement(f, s, n) ==
  LET q == SkipWhiteSpace(f, s.p)
      ending == At(f, q) = "/"
      name == IF ending THEN q + 1 ELSE q
  IN IF At(f, name) \notin Name THEN [s EXCEPT !.p = 0]
     ELSE ParseContent(f,
            ParseAttributes(f, [s EXCEPT !.h.node[n].value = <<f[name]>>, !.p = name + 1,
                                         !.closing = IF ending THEN "closing" ELSE "open"], n),
            n)

(* What is behind the attributes.                                          *)
ParseContent(f, s, n) ==
  IF s.p = 0 \/ At(f, s.p) = "" \/ s.closing # "open" THEN s ELSE ParseDeep(f, s, n)

(* XMLNode::ParseDeep: the nodes below p, under the eye of DepthTracker.   *)
ParseDeep(f, s, p) ==
  LET error == IF s.depth + 1 = MaxDepth THEN "DEPTH" ELSE s.error
      deeper == [s EXCEPT !.depth = @ + 1, !.error = error, !.p = IF error # "" THEN 0 ELSE @]
  IN [ParseChildren(f, deeper, p) EXCEPT !.depth = s.depth, !.closing = "open"]

ParseChildren(f, s, p) ==
  IF s.p = 0 \/ SkipWhiteSpace(f, s.p) > Len(f) THEN [s EXCEPT !.p = 0, !.end = << >>]
  ELSE ParseNode(f, Identify(f, s, s.h.node[p].document), p, Alloc(s.h))

ParseNode(f, s, p, n) ==
  Attach(f, IF IsKind(s.h, n, "element") THEN ParseElement(f, s, n) ELSE ParseLeaf(f, s, n), p, n)

(* Node n has been parsed: it is dropped, or becomes a child of p.         *)
Attach(f, s, p, n) ==
  LET Dropped(error) == [Failed(s, error) EXCEPT !.h = DeleteNode(@, n), !.end = << >>]
      element == IsKind(s.h, n, "element")
  IN CASE s.p = 0 -> Dropped(IF s.error = "" THEN "PARSING" ELSE s.error)
       [] s.p # 0 /\ IsKind(s.h, n, "declaration") /\ ~WellLocated(s.h, p) ->
            Dropped("PARSING_declaration")
       [] s.p # 0 /\ element /\ s.closing = "closing" ->
            [s EXCEPT !.h = DestroyNode(@, n), !.end = s.h.node[n].value]
       [] s.p # 0 /\ element /\ s.closing # "closing" /\ Mismatch(s, n) -> Dropped("MISMATCHED_ELEMENT")
       [] OTHER -> ParseChildren(f, [s EXCEPT !.h = InsertEndChild(@, p, n)], p)

(* XMLDocument::LoadFile and Parse.                                        *)
LoadFile(h, d, f) ==
  LET s == [h |-> Clear(h, d), p |-> SkipWhiteSpace(f, 1), error |-> "", depth |-> 0,
            closing |-> "open", end |-> << >>]
  IN IF s.p > Len(f) THEN Failed(s, "EMPTY_DOCUMENT") ELSE ParseDeep(f, s, d)

-----------------------------------------------------------------------------
(* Printing.  The state of a printer is what it has written and where it   *)
(* stands; textDepth is the depth of the element whose text it is in.      *)

Write(o, symbols) == [o EXCEPT !.out = @ \o symbols]

(* Which characters are written as entities: all in an attribute, the      *)
(* restricted ones in a text.                                              *)
EntityFlag(restricted) == IF restricted THEN {"&", "<", ">"} ELSE {"&", "<", ">", "\"", "'"}

(* A faulty PrintString that writes an ampersand as it is.                 *)
PrintAmpersand(o, value, restricted) ==
  Write(o, FlattenSeq([i \in DOMAIN value |->
    IF value[i] \in EntityFlag(restricted) \ {"&"}
    THEN <<"&", CHOOSE e \in DOMAIN Entity : Entity[e] = value[i], ";">>
    ELSE <<value[i]>>]))

PrintString(o, value, restricted) ==
  Write(o, FlattenSeq([i \in DOMAIN value |->
    IF value[i] \in EntityFlag(restricted)
    THEN <<"&", CHOOSE e \in DOMAIN Entity : Entity[e] = value[i], ";">>
    ELSE <<value[i]>>]))

SealElementIfJustOpened(o) ==
  IF o.justOpened THEN [Write(o, <<">">>) EXCEPT !.justOpened = FALSE] ELSE o

NewLine(o) == Write(o, <<"LF">> \o [i \in 1 .. o.depth |-> " "])

PrepareForNewNode(o) ==
  LET sealed == SealElementIfJustOpened(o)
  IN [(IF ~o.first /\ o.textDepth < 0 THEN NewLine(sealed) ELSE sealed) EXCEPT !.first = FALSE]

PushAttributes(o, attributes) ==
  FoldLeft(LAMBDA w, a :
             Write(PrintString(Write(w, <<" ", a.name, "=", "\"">>), a.value, FALSE), <<"\"">>),
           o, attributes)

OpenElement(o, name) ==
  [Write(PrepareForNewNode(o), <<"<">> \o name) EXCEPT !.justOpened = TRUE, !.depth = @ + 1]

CloseElement(o, name) ==
  LET up == [o EXCEPT !.depth = @ - 1]
      closed == IF o.justOpened THEN Write(up, <<"/>">>)
                ELSE Write(IF o.textDepth < 0 THEN NewLine(up) ELSE up, <<"<", "/">> \o name \o <<">">>)
      left == [closed EXCEPT !.textDepth = IF @ = up.depth THEN -1 ELSE @, !.justOpened = FALSE]
  IN IF up.depth = 0 THEN Write(left, <<"LF">>) ELSE left

PushText(o, text, cdata) ==
  LET sealed == [SealElementIfJustOpened(o) EXCEPT !.textDepth = o.depth - 1]
  IN IF cdata THEN Write(sealed, <<"<![CDATA[">> \o text \o <<"]]>">>)
     ELSE PrintString(sealed, text, TRUE)

(* PushComment, PushDeclaration, PushUnknown.                              *)
PushMarkup(o, kind, value) ==
  LET header == CHOOSE x \in DOMAIN Header : Header[x] = kind
  IN Write(PrepareForNewNode(o), <<header>> \o value \o <<Footer[kind]>>)

(* Accept, and what XMLPrinter does at each visit.                         *)
RECURSIVE Accept(_, _, _), AcceptChildren(_, _, _)
Accept(h, n, o) ==
  LET node == h.node[n]
  IN CASE node.kind = "document" -> AcceptChildren(h, node.firstChild, o)
       [] node.kind = "element" ->
            CloseElement(AcceptChildren(h, node.firstChild,
                           PushAttributes(OpenElement(o, node.value), node.attributes)),
                         node.value)
       [] node.kind = "text" -> PushText(o, node.value, node.cdata)
       [] OTHER -> PushMarkup(o, node.kind, node.value)

AcceptChildren(h, n, o) ==
  IF n = Null THEN o ELSE AcceptChildren(h, h.node[n].next, Accept(h, n, o))

(* XMLDocument::SaveFile into a file it has emptied.                       *)
SaveFile(h, d) ==
  Accept(h, d, [out |-> << >>, justOpened |-> FALSE, first |-> TRUE, depth |-> 0,
                textDepth |-> -1]).out
=============================================================================
