------------------------------ MODULE NodeTable ------------------------------
(***************************************************************************)
(* The nodes of a document as tinyNodeCollection of crengine's             *)
(* lvtinydom.cpp keeps them: slots of elements and of texts with a free    *)
(* list through the slots that were recycled, and for every element the    *)
(* index of its style and of its font in the two caches of RefCache.  The  *)
(* fonts that styles have are remembered in _fontMap, a hash over all      *)
(* styles and fonts in _nodeStyleHash until something changes.             *)
(*                                                                         *)
(* The document is parsed, rendered, saved, and loaded by another          *)
(* session; all of it runs in one thread, so an operation is one step.     *)
(***************************************************************************)
EXTENDS Integers, Sequences, SequencesExt, FiniteSets, RefCache

CONSTANTS Styles,       \* the values of css_style_rec_t
          Fonts,        \* the font instances
          FontOf,       \* the font that getFont finds for a style
          PartLen,      \* TNC_PART_LEN
          AtBoundary,   \* walks over the elements may start when _elemCount is a multiple of PartLen
          MaxElems,     \* bound: element slots
          MaxTexts,     \* bound: text slots
          MaxRefs       \* bound: references to an entry when an operation starts

ASSUME NodeTableAssumption ==
    /\ PartLen \in Nat \ {0} /\ AtBoundary \in BOOLEAN
    /\ MaxElems \in Nat \ {0} /\ MaxTexts \in Nat /\ MaxRefs \in Nat
    /\ FontOf \in [Styles -> Fonts] /\ IsFiniteSet(Styles)
    /\ Null \notin Styles \cup Fonts

VARIABLES
    nodes,      \* the tinyNodeCollection
    phase,      \* what the program does with the document
    image,      \* the nodes and styles in the cache file
    outdated    \* history: _fontMap named a font that was not that of the style

nodeVars == <<nodes, phase, image, outdated>>

Root == 1
NoHash == <<>>
NoImage == [elems |-> <<>>]

-----------------------------------------------------------------------------
(* The slots of one kind of node: allocTinyNode, recycleTinyNode.          *)

\* A slot.  next is _nextFreeIndex, style and font are the ldomNodeStyleInfo.
Slot(p) == [state |-> "live", next |-> 0, parent |-> p, style |-> 0, font |-> 0]

EmptyTable == [slots |-> <<>>, free |-> 0]

\* The slots in use.
Live(t) == {i \in DOMAIN t.slots : t.slots[i].state # "free"}

\* allocTinyNode, which returns AllocAt.
AllocAt(t) == IF t.free # 0 THEN t.free ELSE Len(t.slots) + 1
Alloc(t, p) ==
    IF t.free # 0
    THEN [slots |-> [t.slots EXCEPT ![t.free].state = "live",
                                    ![t.free].next = 0, ![t.free].parent = p],
          free |-> t.slots[t.free].next]
    ELSE [t EXCEPT !.slots = Append(@, Slot(p))]

\* recycleTinyNode
Recycle(t, i) ==
    [slots |-> [t.slots EXCEPT ![i].state = "free", ![i].next = t.free, ![i].parent = 0],
     free |-> i]

-----------------------------------------------------------------------------
(* Styles and fonts of an element e of a collection d.                     *)

Info(d, e) == d.elems.slots[e]
Elements(d) == Live(d.elems)
StyleIndexes == 1 .. Cardinality(Styles)
NoFonts == [n \in StyleIndexes |-> 0]

\* The style and the font of an element.
ValueOf(d, e) == <<Get(d.styles, Info(d, e).style), Get(d.fonts, Info(d, e).font)>>

\* setNodeStyleIndex, setNodeFontIndex
SetStyleIndex(d, e, n) ==
    IF Info(d, e).style = n THEN d
    ELSE [d EXCEPT !.elems.slots[e].style = n, !.hash = NoHash]
SetFontIndex(d, e, n) ==
    IF Info(d, e).font = n THEN d
    ELSE [d EXCEPT !.elems.slots[e].font = n, !.hash = NoHash]

\* Mutant of SetNodeStyle: the hash stays.
SetNodeStyleQuiet(d, e, s) ==
    [d EXCEPT !.styles = CacheFor(@, Info(d, e).style, s),
              !.elems.slots[e].style = CachedAt(d.styles, s)]

\* setNodeStyle
SetNodeStyle(d, e, s) ==
    [d EXCEPT !.styles = CacheFor(@, Info(d, e).style, s),
              !.elems.slots[e].style = CachedAt(d.styles, s),
              !.hash = NoHash]

\* clearNodeStyle
ClearNodeStyle(d, e) ==
    [d EXCEPT !.styles = Release(@, Info(d, e).style),
              !.fonts = Release(@, Info(d, e).font),
              !.elems.slots[e].style = 0, !.elems.slots[e].font = 0,
              !.hash = NoHash]

\* getNodeStyle: each call adds a reference, which nobody releases.
GetNodeStyle(d, e) == [d EXCEPT !.styles = AddIndexRef(@, Info(d, e).style)]

\* The font of a style that _fontMap does not have.
FindFont(d, e) ==
    LET s == Info(d, e).style
        f == Info(d, e).font
        fnt == FontOf[Get(d.styles, s)]
        n == CachedAt(d.fonts, fnt)
        cached == Cache(d.fonts, fnt)
    IN SetFontIndex([d EXCEPT !.fonts = IF f # 0 /\ f # n THEN Release(cached, f) ELSE cached,
                              !.fontMap[s] = n],
                    e, n)

\* initNodeFont; the result of addIndexRef is not looked at.
InitNodeFont(d, e) ==
    LET known == d.fontMap[Info(d, e).style]
    IN IF known = 0 THEN FindFont(d, e)
       ELSE SetFontIndex([d EXCEPT !.fonts = IF Info(d, e).font # known
                                             THEN AddIndexRef(@, known) ELSE @],
                         e, known)

\* initNodeStyle, with setNodeStyle of lvrend.cpp: the style is computed from that of
\* the parent, set, read again, and the font follows.
InitNodeStyle(d, e, s) ==
    LET p == Info(d, e).parent
        read == IF p \in {0, Root} THEN d ELSE GetNodeStyle(d, p)
    IN InitNodeFont(GetNodeStyle(SetNodeStyle(read, e, s), e), e)

\* The elements of S in an order in which parents come first.
Downwards(d, S) ==
    {order \in SetToSeqs(S) :
        \A i, j \in DOMAIN order : Info(d, order[i]).parent = order[j] => j < i}

\* Mutant of InitNodeStyles: _fontMap is not cleared.
InitNodeStylesAgain(d, style, order) ==
    FoldLeft(LAMBDA x, e : InitNodeStyle(x, e, style[e]), d, order)

\* initNodeStyleRecursive from the root
InitNodeStyles(d, style, order) ==
    FoldLeft(LAMBDA x, e : InitNodeStyle(x, e, style[e]), [d EXCEPT !.fontMap = NoFonts], order)

-----------------------------------------------------------------------------
(* Walks over all elements.                                                *)

\* Mutant of Walked: the last part is left out.
WalkedFull(d) ==
    {e \in Elements(d) : e \div PartLen < Len(d.elems.slots) \div PartLen}

\* The slots that a walk reaches: as many parts as the elements fill, although the
\* first element is in slot 1.
Walked(d) ==
    LET count == (Len(d.elems.slots) + PartLen - 1) \div PartLen
    IN {e \in Elements(d) : e \div PartLen < count}

\* All slots, one after the other.
Places(t) == [i \in 1 .. Len(t.slots) |-> i]

\* dropStyles
DropStyles(d) ==
    [d EXCEPT !.styles = EmptyCache, !.fonts = EmptyCache, !.hash = NoHash,
              !.elems.slots = [e \in DOMAIN @ |->
                  IF e \in Walked(d) THEN [@[e] EXCEPT !.style = 0, !.font = 0] ELSE @[e]]]

\* The styles and fonts that the hash is computed from.
HashOf(d) == [e \in Walked(d) |-> ValueOf(d, e)]

\* calcStyleHash, as far as the nodes go.
CalcStyleHash(d) ==
    IF d.hash # NoHash THEN d
    ELSE FoldLeft(LAMBDA x, e : IF e \in Walked(d) THEN GetNodeStyle(x, e) ELSE x,
                  [d EXCEPT !.hash = HashOf(d)], Places(d.elems))

\* updateRenderContext: the hash is taken anew, whatever was kept.
UpdateRenderContext(d) == CalcStyleHash([d EXCEPT !.hash = NoHash])

\* updateLoadedStyles, for one element.
UpdateLoaded(d, e, list) ==
    LET s == Info(d, e).style
        known == d.fontMap[s]
        fnt == FontOf[list[s]]
        n == IF known = 0 THEN CachedAt(d.fonts, fnt) ELSE known
    IN IF s = 0 \/ list[s] = Null
       THEN SetStyleIndex(SetFontIndex(d, e, 0), e, 0)
       ELSE SetFontIndex([d EXCEPT !.fonts = IF known = 0 THEN Cache(@, fnt) ELSE AddIndexRef(@, n),
                                   !.fontMap[s] = n],
                         e, n)

\* updateLoadedStyles(enabled)
UpdateLoadedStyles(d, enabled) ==
    IF enabled
    THEN FoldLeft(LAMBDA x, e : IF e \in Walked(d) THEN UpdateLoaded(x, e, GetIndex(d.styles)) ELSE x,
                  [d EXCEPT !.fontMap = NoFonts, !.hash = NoHash], Places(d.elems))
    ELSE [d EXCEPT !.fontMap = NoFonts, !.hash = NoHash,
                   !.elems.slots = [e \in DOMAIN @ |->
                       IF e \in Walked(d) THEN [@[e] EXCEPT !.style = 0, !.font = 0] ELSE @[e]]]

-----------------------------------------------------------------------------
(* The operations.                                                         *)

\* A document with its root.
NewCollection ==
    [elems |-> Alloc(EmptyTable, 0), texts |-> EmptyTable, styles |-> EmptyCache,
     fonts |-> EmptyCache, fontMap |-> NoFonts, hash |-> NoHash]

NodesInit == nodes = NewCollection /\ phase = "parsing" /\ image = NoImage /\ outdated = FALSE

\* What _fontMap says of the styles in the cache is right.
MapCurrent(d) ==
    \A n \in StyleIndexes :
        d.fontMap[n] # 0 /\ Holds(d.styles, n)
            => Get(d.fonts, d.fontMap[n]) = FontOf[Get(d.styles, n)]
Track == outdated' = (outdated \/ ~ MapCurrent(nodes'))

\* The program builds or changes the tree.
Building == phase \in {"parsing", "boxing"}
Room == \A n \in DOMAIN nodes.styles.index : Holds(nodes.styles, n) => nodes.styles.index[n].refcount < MaxRefs
Boundary == AtBoundary \/ Len(nodes.elems.slots) % PartLen # 0
Unstyled == {e \in Elements(nodes) : Info(nodes, e).style = 0}

\* insertChildElement, with allocTinyElement
AddElement ==
    /\ Building
    /\ nodes.elems.free # 0 \/ Len(nodes.elems.slots) < MaxElems
    /\ \E p \in Elements(nodes) :
           nodes' = [nodes EXCEPT !.elems = Alloc(@, p), !.hash = NoHash]
    /\ Track /\ UNCHANGED <<phase, image>>

\* insertChildText, of the parser
AddText ==
    /\ phase = "parsing"
    /\ nodes.texts.free # 0 \/ Len(nodes.texts.slots) < MaxTexts
    /\ \E p \in Elements(nodes) : nodes' = [nodes EXCEPT !.texts = Alloc(@, p), !.hash = NoHash]
    /\ Track /\ UNCHANGED <<phase, image>>

\* A parent is styled before its children; DocFragment is styled again when its body
\* comes.
InitStyle ==
    /\ Building
    /\ \E e \in Elements(nodes), s \in Styles :
           /\ e # Root => Info(nodes, e).parent \notin Unstyled
           /\ e \in Unstyled \/ (phase = "parsing" /\ Room /\ e # Root)
           /\ nodes' = InitNodeStyle(nodes, e, s)
    /\ Track /\ UNCHANGED <<phase, image>>

\* setStyle of the renderer, with a copy of the style that has the same font (borders of
\* table cells). The bound: once between two hashes.
SetStyle ==
    /\ phase = "layout" /\ nodes.hash # NoHash
    /\ \E e \in Elements(nodes), s \in Styles :
           /\ s # ValueOf(nodes, e)[1] /\ FontOf[s] = FontOf[ValueOf(nodes, e)[1]]
           /\ nodes' = SetNodeStyle(GetNodeStyle(nodes, e), e, s)
    /\ Track /\ UNCHANGED <<phase, image>>

\* The style of an element of a loaded document is asked for. Elsewhere the reads that
\* are part of the operations stand for such calls.
GetStyle ==
    /\ phase = "loaded" /\ Room
    /\ \E e \in Elements(nodes) : nodes' = GetNodeStyle(nodes, e)
    /\ Track /\ UNCHANGED <<phase, image>>

\* The elements below an element, and itself.
Subtree(d, e) ==
    LET inside[x \in Elements(d)] ==
            x = e \/ (Info(d, x).parent # 0 /\ inside[Info(d, x).parent])
    IN {x \in Elements(d) : inside[x]}

\* moveItemsTo and setParentNode, of one node: into a box next to it when the tree gets its
\* boxes, into a section or behind the body when an importer moves what it has parsed.
MoveItem ==
    /\ Building
    /\ \E box \in Elements(nodes) :
           \/ \E e \in Elements(nodes) \ {Root} :
                  /\ box \notin Subtree(nodes, e) /\ Info(nodes, e).parent # box
                  /\ phase = "boxing" => Info(nodes, box).parent = Info(nodes, e).parent
                  /\ nodes' = [nodes EXCEPT !.elems.slots[e].parent = box]
           \/ \E i \in Live(nodes.texts) :
                  /\ phase = "boxing" => Info(nodes, box).parent = nodes.texts.slots[i].parent
                  /\ nodes' = [nodes EXCEPT !.texts.slots[i].parent = box]
    /\ Track /\ UNCHANGED <<phase, image>>

\* destroy of one element and of one text
DestroyElement(d, e) == LET f == ClearNodeStyle(d, e) IN [f EXCEPT !.elems = Recycle(@, e)]
DestroyText(d, i) == [d EXCEPT !.texts = Recycle(@, i), !.hash = NoHash]
DestroyTexts(d, S) ==
    FoldLeft(LAMBDA x, i : IF i \in S THEN DestroyText(x, i) ELSE x, d, Places(d.texts))

\* removeChildren, of an empty text
RemoveText ==
    /\ phase = "boxing"
    /\ \E i \in Live(nodes.texts) : nodes' = DestroyText(nodes, i)
    /\ Track /\ UNCHANGED <<phase, image>>

\* Mutant of Doomed: what is below the element stays.
DoomedOne(d, e) == {e}

\* What destroy of an element takes: itself and the elements below it.
Doomed(d, e) == Subtree(d, e)

\* removeChild and destroy of an element: what is below it goes first.
RemoveElement ==
    /\ phase = "parsing" /\ Room
    /\ \E e \in Elements(nodes) \ {Root} :
           LET texts == {i \in Live(nodes.texts) : nodes.texts.slots[i].parent \in Doomed(nodes, e)}
           IN \E order \in SetToSeqs(Doomed(nodes, e)) :
                  /\ \A i, j \in DOMAIN order : Info(nodes, order[i]).parent = order[j] => i < j
                  /\ nodes' = FoldLeft(DestroyElement, DestroyTexts(nodes, texts), order)
    /\ Track /\ UNCHANGED <<phase, image>>

\* The end of parsing: ldomDocumentWriter's destructor gives the root its style and font
\* again, after an importer dropped all styles (embedded fonts), and may drop them itself
\* (pseudo classes).
FinishParsing ==
    /\ phase = "parsing" /\ Boundary
    /\ Unstyled = {}
    /\ \E fonts, pseudo \in BOOLEAN :
           LET before == IF fonts THEN DropStyles(nodes) ELSE nodes
               styled == InitNodeStyle(before, Root, Get(nodes.styles, Info(nodes, Root).style))
               root == UpdateRenderContext(InitNodeFont(styled, Root))
           IN nodes' = IF pseudo THEN DropStyles(root) ELSE root
    /\ phase' = "parsed"
    /\ Track /\ UNCHANGED image

\* The document is rendered. The bound: what the file holds is loaded at once or never, and
\* nothing is rendered between, because saving leaves the nodes and nothing that this
\* session does after it changes what the next one finds.
Renders ==
    /\ phase \in {"parsed", "loaded"} \/ (phase = "ready" /\ image = NoImage)
    /\ Boundary
    /\ image' = NoImage

\* render when the context is what it was; the pages may have to be made again.
RenderSame ==
    /\ Renders
    /\ ValueOf(nodes, Root)[2] # Null
    /\ nodes' = CalcStyleHash(nodes)
    /\ phase' \in CASE phase = "parsed" -> {"layout"}
                     [] phase = "loaded" \/ Room -> {"layout", "ready"}
                     [] OTHER -> {"ready"}
    /\ Track

\* render when it is not: all styles are dropped and computed again, and the tree gets
\* its boxes.
RenderFull ==
    /\ Renders
    /\ \E style \in [Elements(nodes) -> Styles], order \in Downwards(nodes, Elements(nodes)) :
           nodes' = InitNodeStyles(DropStyles(nodes), style, order)
    /\ phase' = "boxing"
    /\ outdated' = FALSE

\* The context is updated before the blocks are laid out, and again when the pages are there.
Layout ==
    /\ phase = "boxing" /\ Boundary
    /\ Unstyled = {}
    /\ nodes' = UpdateRenderContext(nodes)
    /\ phase' = "layout"
    /\ Track /\ UNCHANGED image
FinishRender ==
    /\ phase = "layout" /\ Boundary
    /\ nodes' = UpdateRenderContext(nodes)
    /\ phase' = "ready"
    /\ Track /\ UNCHANGED image

\* saveChanges, from the persist stage to the styles.
Save ==
    /\ phase = "ready" /\ Boundary
    /\ image' = [elems |-> nodes.elems.slots, texts |-> nodes.texts.slots, list |-> GetIndex(nodes.styles),
                 values |-> [e \in Elements(nodes) |-> ValueOf(nodes, e)], stale |-> outdated]
    /\ UNCHANGED <<nodes, phase, outdated>>

\* The book is opened by another session, from the cache file, when that has a text. The
\* heads of the free lists are not in the file; the styles may fail to load.
Load ==
    /\ image # NoImage
    /\ image.texts # <<>>
    /\ \E enabled \in BOOLEAN :
           nodes' = UpdateLoadedStyles(
                    [NewCollection EXCEPT !.elems = [slots |-> image.elems, free |-> 0],
                                          !.texts = [slots |-> image.texts, free |-> 0],
                                          !.styles = IF enabled THEN SetIndex(image.list) ELSE @],
                    enabled)
    /\ phase' = "loaded"
    /\ outdated' = FALSE
    /\ UNCHANGED image

NodesNext ==
    \/ AddElement \/ AddText \/ InitStyle \/ SetStyle \/ GetStyle
    \/ MoveItem \/ RemoveText \/ RemoveElement
    \/ FinishParsing \/ RenderSame \/ RenderFull \/ Layout \/ FinishRender
    \/ Save \/ Load

NodesSpec == NodesInit /\ [][NodesNext]_nodeVars

-----------------------------------------------------------------------------
(* Properties.                                                             *)

TableOK(t, bound) ==
    /\ t.slots \in Seq([state : {"free", "live"}, next : 0 .. bound,
                        parent : 0 .. MaxElems, style : Nat, font : Nat])
    /\ t.free \in 0 .. bound

\* What allocTinyNode hands out is never in use: the free list runs through recycled
\* slots to its end, without coming back.
FreeListSound ==
    \A t \in {nodes.elems, nodes.texts} :
        LET chain == Chain(t.free, [i \in DOMAIN t.slots |-> t.slots[i].next])
        IN /\ chain[Len(t.slots)] = 0
           /\ {chain[k] : k \in DOMAIN chain} \cap Live(t) = {}

\* The parent of a node that is there is there: destroy takes the whole subtree, and a
\* slot that is used again has no children of the node it was.
ParentsLive ==
    /\ \A e \in Elements(nodes) \ {Root} : Info(nodes, e).parent \in Elements(nodes)
    /\ \A i \in Live(nodes.texts) : nodes.texts.slots[i].parent \in Elements(nodes)

\* The variables have their types, the slots of nodes and the tree are sound, and so are
\* both caches: an entry that is free is on the free list once, no value has two
\* entries, every value is referenced.
NodesTypeOK ==
    /\ TableOK(nodes.elems, MaxElems) /\ TableOK(nodes.texts, MaxTexts)
    /\ FreeListSound /\ ParentsLive
    /\ CacheSound(nodes.styles) /\ CacheSound(nodes.fonts)
    /\ nodes.fontMap \in [StyleIndexes -> Nat]
    /\ phase \in {"parsing", "parsed", "boxing", "layout", "ready", "loaded"}

StyleHolders(d, n) == {e \in Elements(d) : Info(d, e).style = n}
FontHolders(d, n) == {e \in Elements(d) : Info(d, e).font = n}

\* An element's style is in the cache, with at least as many references as elements
\* that have it, so that none loses it when another lets it go. After loading, when each
\* entry has one reference, it is calcStyleHash that sets this right. The same of
\* fonts, as long as _fontMap names the fonts of the styles: initNodeFont takes what it
\* says without a look at the result of addIndexRef.
ReferencesHeld ==
    \A e \in Elements(nodes) :
        LET s == Info(nodes, e).style
            f == Info(nodes, e).font
        IN /\ phase # "loaded" /\ s # 0 =>
                 /\ Holds(nodes.styles, s)
                 /\ nodes.styles.index[s].refcount >= Cardinality(StyleHolders(nodes, s))
           /\ ~ outdated /\ f # 0 =>
                 /\ Holds(nodes.fonts, f)
                 /\ nodes.fonts.index[f].refcount >= Cardinality(FontHolders(nodes, f))

\* As long as _fontMap does, an element that has a style has the font of that style, although
\* both are matched by indexes that are used again, in a map that outlives them.
FontsFollowStyles ==
    ~ outdated =>
        \A e \in Elements(nodes) \ Unstyled : ValueOf(nodes, e)[2] = FontOf[ValueOf(nodes, e)[1]]

\* The hash that calcStyleHash takes from _nodeStyleHash is that of the document.
HashCurrent == nodes.hash # NoHash => nodes.hash = HashOf(nodes)

\* A document comes back from its cache file with every style and font it had, or
\* without any, so that it is rendered again.
LoadedAsSaved ==
    phase = "loaded" /\ ~ image.stale =>
        \/ \A e \in Elements(nodes) : ValueOf(nodes, e) = image.values[e]
        \/ \A e \in Elements(nodes) : Info(nodes, e).style = 0 /\ Info(nodes, e).font = 0
=============================================================================
