---- MODULE ToolCalls ----
(***************************************************************************)
(* A tool call on its way to the extension's router: the limits that the   *)
(* server's tools check (src/internal/tools), how sendRaw completes the    *)
(* target from the session's selected tab, the request that it sends ahead *)
(* for the action policy, and the verdict of the validators of             *)
(* command-router.js, which check the same limits again in another         *)
(* language.                                                               *)
(*                                                                         *)
(* A tool is a record of the fields that it always sends or checks itself, *)
(* with its own limits, and of the kind of target it builds.  A field that *)
(* a tool passes on without looking at it takes a harmless value.  The     *)
(* parameters of a call are a typical call with at most one field at an    *)
(* edge of the tool's limits.                                              *)
(***************************************************************************)
EXTENDS CommandSchemas

CONSTANTS
    Widths,      \* the widths of characters that clients use
    MaxElapsed   \* bound: milliseconds that pass before the request is sent

VARIABLES
    policy,      \* Service.actionPolicy is set
    selected,    \* the session has a selected tab
    call,        \* the call in progress: command, parameters, target, timeout
    stage        \* where it is: "idle", "probe", "request" or an outcome

vars == <<policy, selected, call, stage>>

----------------------------------------------------------------------------
(* The tools of src/internal/tools.                                        *)

Tool(fields, target) == [fields |-> fields, target |-> target]
Runes(lo, hi) == String(lo, hi, "runes", FALSE)
InBytes(lo, hi) == String(lo, hi, "bytes", FALSE)
Sent(r) == Required(r)
Free == Sent(Runes(1, 1))
Element == [locator |-> Sent(Locator)]
Backend == [backend |-> Enum({"auto", "content", "cdp"}), waitForNavigation |-> Boolean]
DOMBackend == [backend |-> Enum({"auto", "content"}), waitForNavigation |-> Boolean]

Placed == [focused |-> Boolean, left |-> AnyInteger, top |-> AnyInteger,
           width |-> IntegerRange(1, Huge), height |-> IntegerRange(1, Huge)]

PingTools == All({"browser.ping", "tabs.list"}, {Tool(NoFields, "none")})

WindowTools ==
    "windows.list" :> {Tool(NoFields, "none")}
    @@ All({"windows.get", "windows.focus", "windows.close"}, {Tool(NoFields, "window")})
    @@ "windows.create" :>
        {Tool(Placed @@ [urls |-> Array(1, 50, FALSE), type |-> Enum({"normal", "popup"})], "none"),
         Tool([state |-> Sent(Enum(WindowStates))], "none")}
    @@ "windows.update" :> {Tool(Placed @@ [drawAttention |-> Sent(Boolean)], "window"),
                            Tool([state |-> Sent(Enum(WindowStates))], "window")}

TabTools ==
    All({"tabs.get", "tabs.activate", "tabs.stop", "tabs.back", "tabs.forward",
         "tabs.duplicate", "tabs.close", "tabs.getZoom"}, {Tool(NoFields, "tab")})
    @@ "tabs.create" :> {Tool([active |-> Boolean, pinned |-> Boolean], "none")}
    @@ "tabs.navigate" :> {Tool([url |-> Free], "tab")}
    @@ "tabs.reload" :> {Tool([bypassCache |-> Boolean], "tab")}
    @@ "tabs.move" :> {Tool([index |-> Sent(IntegerRange(-1, Huge))], "tab")}
    @@ "tabs.pin" :> {Tool([pinned |-> Sent(Boolean)], "tab")}
    @@ "tabs.mute" :> {Tool([muted |-> Sent(Boolean)], "tab")}
    @@ "tabs.setZoom" :> {Tool([factor |-> Sent(NumberRange(25, 500))], "tab")}

GroupAndSessionTools ==
    All({"tabs.group", "tabs.ungroup"}, {Tool([tabIds |-> Sent(Array(1, 100, TRUE))], "none")})
    @@ "tabGroups.update" :> {Tool([groupId |-> Sent(Identifier), title |-> Sent(Runes(0, 1))], "none")}
    @@ "sessions.recentlyClosed" :> {Tool([maxResults |-> IntegerRange(1, 25)], "none")}
    @@ "sessions.restore" :> {Tool([sessionId |-> Runes(1, 1)], "none")}

WaitTool(condition, fields) ==
    Tool([condition |-> Sent(Enum({condition})), mode |-> Enum({"auto", "polling", "event"}),
          pollIntervalMs |-> IntegerRange(25, 1000)] @@ fields, "page")
Expected == [expected |-> Sent(InBytes(0, 100000)), matchOperator |-> Enum({"equals", "contains"})]
WaitTools ==
    {WaitTool("delay", [delayMs |-> Sent(IntegerRange(0, 120000))]),
     WaitTool("loadState", [readyState |-> Sent(Enum({"interactive", "complete"}))]),
     WaitTool("url", [url |-> Sent(InBytes(1, 4096))]),
     WaitTool("url", [urlPattern |-> Sent(InBytes(1, 4096))]),
     WaitTool("element", Element @@ [elementState |-> Sent(Enum({"attached", "detached", "visible",
                                                      "hidden", "enabled", "disabled"}))]),
     WaitTool("text", Expected @@ [locator |-> Locator]),
     WaitTool("value", Expected @@ Element),
     WaitTool("count", Element @@ [count |-> Sent(IntegerRange(0, 1000000)),
                                   countOperator |-> Enum({"equals", "atLeast", "atMost"})]),
     WaitTool("navigation", NoFields),
     WaitTool("networkIdle", [idleMs |-> Sent(IntegerRange(100, 30000))]),
     WaitTool("attribute", Element @@ [attribute |-> Sent(InBytes(1, 200)),
                                       attributeState |-> Sent(Enum({"present", "absent"}))]),
     WaitTool("attribute", Element @@ [attribute |-> Sent(InBytes(1, 200)),
                                       attributeState |-> Sent(Enum({"equals", "contains"})),
                                       expected |-> Sent(InBytes(0, 100000))])}

ReadTools ==
    All({"page.info", "page.getHTML", "page.getText", "page.snapshot"}, {Tool(NoFields, "page")})
    @@ All({"page.query", "page.getElement"}, {Tool(Element, "page")})
    @@ "page.getHTMLBySelector" :> {Tool([selector |-> Free], "page")}

ClickAndInputTools ==
    "page.click" :> {Tool(Element @@ Backend @@ [button |-> Enum({"left", "middle", "right"}),
                                                 clickCount |-> IntegerRange(1, 2)], "page")}
    @@ "page.fill" :> {Tool(Element @@ Backend @@ [value |-> Sent(Runes(0, 100000)),
                                                   clear |-> Sent(Boolean)], "page")}

InteractionTools ==
    All({"page.hover", "page.clear", "page.setChecked"}, {Tool(Element, "page")})
    @@ All({"page.focus", "page.blur", "page.submit"}, {Tool(Element @@ DOMBackend, "page")})
    @@ "page.type" :> {Tool(Element @@ [text |-> Sent(Runes(1, 100000))], "page"),
                       Tool(Element @@ [text |-> Sent(Runes(1, 10000)),
                                        delayMs |-> Sent(IntegerRange(0, 1000))], "page")}
    @@ "page.press" :> {Tool(Element @@ [key |-> Sent(Runes(1, 100)),
                                         modifiers |-> Array(0, 4, TRUE)], "page")}
    @@ "page.select" :> {Tool(Element @@ DOMBackend @@ [values |-> Sent(Array(1, 100, FALSE))], "page")}
    @@ "page.scroll" :> {Tool([deltaX |-> Sent(IntegerRange(0, 1000000)), locator |-> Locator,
                               deltaY |-> Sent(IntegerRange(-1000000, -1))], "page")}
    @@ "page.drag" :> {Tool(DOMBackend @@ [source |-> Sent(Locator), targetLocator |-> Sent(Locator)], "page")}
    @@ "page.dispatch" :> {Tool(Element @@ DOMBackend @@ [eventType |-> Sent(InBytes(1, 100))], "page")}

ScreenshotTools ==
    "page.screenshot" :>
        {Tool([maxWidth |-> IntegerRange(1, 16384), maxHeight |-> IntegerRange(1, 16384),
               maxBytes |-> Sent(IntegerRange(1024, 2000000))], "document"),
         Tool([format |-> Sent(Enum({"jpeg"})), quality |-> IntegerRange(0, 100)], "document"),
         Tool([capture |-> Sent(Enum({"element"}))] @@ Element, "document")}

PDFTools ==
    "page.printToPDF" :>
        {Tool([scale |-> NumberRange(10, 200), pageRanges |-> InBytes(0, 256),
               paperWidth |-> NumberRange(100, 20000), paperHeight |-> NumberRange(100, 20000),
               maxBytes |-> Sent(IntegerRange(1024, 2000000))]
              @@ All({"marginTop", "marginBottom", "marginLeft", "marginRight"},
                     Sent(NumberRange(0, 40))), "tab")}

AccessibilityTools ==
    "accessibility.getTree" :>
        {Tool([mode |-> Sent(Enum({m})), roles |-> Sent(Array(0, 50, TRUE)),
               nameContains |-> Sent(Runes(0, 1)), includeIgnored |-> Sent(Boolean),
               includeLocators |-> Sent(Boolean),
               includeElementReferences |-> Sent([Boolean EXCEPT !.only = {TRUE}]),
               maxNodes |-> Sent(IntegerRange(1, 5000)), maxProperties |-> Sent(IntegerRange(0, 50)),
               maxValueChars |-> Sent(IntegerRange(1, 2000)),
               maxElementReferences |-> Sent(IntegerRange(0, 100)),
               maxBytes |-> Sent(IntegerRange(65536, 1500000))]
              @@ IF m = "full" THEN "maxDepth" :> Sent(IntegerRange(0, 50))
                 ELSE [backendNodeId |-> Sent(IntegerRange(1, Huge)),
                       fetchRelatives |-> Sent(Boolean)], "root") : m \in {"full", "partial"}}

EmulationTools ==
    "emulation.set" :>
        {Tool([viewport |-> Nested([width |-> Sent(IntegerRange(1, 10000)),
                                    height |-> Sent(IntegerRange(1, 10000)),
                                    deviceScaleFactor |-> Sent(NumberRange(10, 1000)),
                                    mobile |-> Sent(Boolean)]),
               touch |-> Nested([enabled |-> Sent([Boolean EXCEPT !.only = {TRUE}]),
                                 maxTouchPoints |-> IntegerRange(1, 10)]),
               network |-> Nested([offline |-> Sent(Boolean), latencyMs |-> NumberRange(0, 300000),
                                   downloadKbps |-> NumberRange(0, 10000000),
                                   uploadKbps |-> NumberRange(0, 10000000)]),
               userAgent |-> Nested([value |-> Sent(InBytes(1, 1000)),
                                     acceptLanguage |-> InBytes(1, 200),
                                     platform |-> InBytes(1, 100)]),
               timezoneId |-> InBytes(1, 100), locale |-> Sent(InBytes(2, 100)),
               geolocation |-> Nested([latitude |-> Sent(NumberRange(-9000, 9000)),
                                       longitude |-> Sent(NumberRange(-18000, 18000)),
                                       accuracy |-> Sent(NumberRange(0, 100000000))])], "root")}
    @@ "emulation.get" :> {Tool(NoFields, "root")}
    @@ "emulation.reset" :> {Tool(NoFields, "rootOfTab")}

EvaluationTools ==
    "runtime.evaluateIsolated" :>
        {Tool([expression |-> Sent(InBytes(1, 32768)), awaitPromise |-> Sent(Boolean),
               maxDepth |-> Sent(IntegerRange(0, 10)), maxNodes |-> Sent(IntegerRange(1, 5000)),
               maxStringChars |-> Sent(IntegerRange(1, 100000)),
               maxBytes |-> Sent(IntegerRange(65536, 1000000))], "root")}

RawCDPTools ==
    "cdp.sendReadOnly" :>
        {Tool([method |-> Sent(Enum({x[1]})), params |-> Sent(Nested(x[2])),
               maxDepth |-> Sent(IntegerRange(1, 20)), maxNodes |-> Sent(IntegerRange(2, 5000)),
               maxStringChars |-> Sent(IntegerRange(1, 10000)),
               maxBytes |-> Sent(IntegerRange(65536, 1000000))], "root") :
           x \in {<<"Accessibility.getFullAXTree", [depth |-> IntegerRange(0, 50)]>>,
                  <<"Accessibility.queryAXTree",
                    [backendNodeId |-> Sent(IntegerRange(1, Huge)),
                     accessibleName |-> Runes(0, 500), role |-> Runes(0, 100)]>>,
                  <<"DOM.describeNode", [backendNodeId |-> Sent(IntegerRange(1, Huge)),
                                         depth |-> IntegerRange(0, 10)]>>,
                  <<"Page.getLayoutMetrics", NoFields>>}}

PerformanceTools ==
    "performance.metrics" :> {Tool(NoFields, "root")}
    @@ "performance.capture" :>
        {Tool([kind |-> Sent(Enum({"trace", "coverage", "cpuProfile", "audits"})),
               durationMs |-> Sent(IntegerRange(100, 10000)),
               maxBytes |-> Sent(IntegerRange(65536, 2000000))], "root")}

NetworkTools ==
    "network.start" :> {Tool([maxEntries |-> Sent(IntegerRange(1, 5000))], "root")}
    @@ All({"network.stop", "network.clear"}, {Tool(NoFields, "root")})
    @@ "network.read" :>
        {Tool([limit |-> Sent(IntegerRange(1, 200)), statusMin |-> IntegerRange(100, 599),
               statusMax |-> IntegerRange(100, 599),
               maxBytes |-> Sent(IntegerRange(65536, 1000000))], "root")}
    @@ "network.getBody" :>
        {Tool([entryId |-> Sent(Digits(1, Huge)), direction |-> Sent(Enum({"request", "response"})),
               maxBytes |-> Sent(IntegerRange(1024, 1000000))], "root")}
    @@ "network.exportHAR" :> {Tool([maxBytes |-> Sent(IntegerRange(65536, 2000000))], "root")}

ConsoleTools ==
    "console.start" :> {Tool([bufferSize |-> IntegerRange(1, 5000)], "page")}
    @@ All({"console.stop", "console.clear"}, {Tool(NoFields, "page")})
    @@ "console.read" :> {Tool([limit |-> IntegerRange(1, 200)], "page")}

Site == [url |-> Sent(InBytes(1, 8192))]
Cookie == Site @@ [name |-> Sent(InBytes(1, 256)), storeId |-> InBytes(1, 256)]
Origin == [origin |-> Sent(InBytes(1, 8192))]
Stored == Origin @@ [storageType |-> Sent(Enum({"localStorage", "sessionStorage"})),
                     key |-> Sent(InBytes(0, 1024))]
Confirmed == [confirm |-> Sent(Confirmation)]
Paged(limit) == [limit |-> Sent(IntegerRange(1, limit))]
Scanned == Paged(200) @@ [cursor |-> Digits(1, 9999)]
Private == [allowIncognito |-> Sent(Boolean)]
Bookmark == [bookmarkId |-> Sent(InBytes(1, 256))]

CookieTools ==
    All({"cookies.list", "cookies.listSensitive"},
        {Tool(Site @@ Paged(200) @@ [domain |-> InBytes(1, 253), path |-> InBytes(1, 2048)], "root")})
    @@ All({"cookies.get", "cookies.getSensitive", "cookies.remove"}, {Tool(Cookie, "root")})
    @@ "cookies.set" :> {Tool(Cookie @@ [value |-> Sent(InBytes(0, 4096)), domain |-> InBytes(1, 253),
                                         path |-> InBytes(1, 2048)], "root")}

StorageTools ==
    All({"storage.get", "storage.getSensitive", "storage.remove"}, {Tool(Stored, "root")})
    @@ "storage.set" :> {Tool(Stored @@ [value |-> Sent(InBytes(0, 65536))], "root")}
    @@ All({"storage.list", "storage.listSensitive", "storage.cacheMetadata",
            "storage.indexedDBMetadata"}, {Tool(Origin @@ Paged(200), "root")})
    @@ "storage.clear" :> {Tool(Origin @@ Confirmed @@ [types |-> Sent(Array(1, 4, TRUE))], "root")}

DownloadTools ==
    "downloads.list" :> {Tool(Scanned @@ Private, "none")}
    @@ "downloads.create" :> {Tool(Site @@ Private, "none")}
    @@ All({"downloads.get", "downloads.pause", "downloads.resume", "downloads.cancel"},
           {Tool(Private @@ [downloadId |-> Sent(Identifier)], "none")})
    @@ "downloads.erase" :> {Tool(Private @@ Confirmed @@ [downloadId |-> Sent(Identifier)], "none")}

PersonalDataTools ==
    "history.search" :> {Tool(Scanned @@ [text |-> InBytes(0, 1024)], "none")}
    @@ "history.getVisits" :> {Tool(Scanned @@ Site, "none")}
    @@ "history.deleteUrl" :> {Tool(Site @@ Confirmed, "none")}
    @@ "history.deleteRange" :> {Tool(Confirmed @@ [startTime |-> Sent(IntegerRange(0, 1)),
                                                    endTime |-> Sent(IntegerRange(2, Huge))], "none")}
    @@ "history.deleteAll" :> {Tool(Confirmed, "none")}
    @@ "bookmarks.list" :> {Tool(Scanned @@ [query |-> InBytes(0, 1024)], "none"),
                            Tool(Scanned @@ [parentId |-> InBytes(1, 256)], "none")}
    @@ "bookmarks.create" :> {Tool([title |-> Sent(InBytes(1, 2048)), url |-> InBytes(1, 8192),
                                    parentId |-> InBytes(1, 256), index |-> Identifier], "none")}
    @@ "bookmarks.update" :> {Tool(Bookmark @@ [title |-> Sent(InBytes(1, 2048))], "none")}
    @@ "bookmarks.move" :> {Tool(Bookmark @@ [index |-> Sent(Identifier)], "none")}
    @@ "bookmarks.remove" :> {Tool(Bookmark @@ Confirmed @@ [recursive |-> Boolean], "none")}
    @@ "readingList.list" :> {Tool(Scanned @@ [title |-> InBytes(0, 2048)], "none")}
    @@ "readingList.add" :> {Tool(Site @@ [title |-> Sent(InBytes(1, 2048)),
                                           hasBeenRead |-> Sent(Boolean)], "none")}
    @@ "readingList.update" :> {Tool(Site @@ [hasBeenRead |-> Sent(Boolean)], "none")}
    @@ "readingList.remove" :> {Tool(Site, "none")}

Tools == PingTools @@ WindowTools @@ TabTools @@ GroupAndSessionTools @@ ReadTools
         @@ ClickAndInputTools @@ InteractionTools @@ "page.wait" :> WaitTools
         @@ ScreenshotTools @@ PDFTools @@ AccessibilityTools @@ EmulationTools
         @@ EvaluationTools @@ RawCDPTools @@ PerformanceTools @@ NetworkTools
         @@ ConsoleTools @@ CookieTools @@ StorageTools @@ DownloadTools @@ PersonalDataTools

----------------------------------------------------------------------------
(* The calls that a tool lets through.                                     *)

PerCharacter(unit, width) ==
    IF unit = "runes" THEN 1 ELSE CASE width = "ascii" -> 1 [] width = "bmp" -> 3
                                    [] width = "astral" -> 4

\* The values at the edges of a rule that is not an object's.
Edges(r) ==
    CASE r.type = "number" -> {NumberOf(r.lo), NumberOf(r.hi)}
      [] r.type = "word" -> {Word(w) : w \in r.words}
      [] r.type = "boolean" -> {BooleanOf(b) : b \in r.only}
      [] r.type = "locator" -> {LocatorOf(TRUE)}
      [] r.type = "array" -> {ArrayOf(r.lo, TRUE, TRUE), ArrayOf(r.hi, TRUE, TRUE)}
      [] r.type = "string" -> {StringOf(r.lo, "ascii")}
            \cup {StringOf(r.hi \div PerCharacter(r.unit, w), w) : w \in Widths}

Typical(fields, EdgesOf(_)) ==
    [f \in {g \in DOMAIN fields : fields[g].required} |-> CHOOSE v \in EdgesOf(fields[f]) : TRUE]
Varied(fields, EdgesOf(_)) ==
    LET typical == Typical(fields, EdgesOf)
    IN  {typical} \cup UNION {{f :> v @@ typical : v \in EdgesOf(fields[f])} : f \in DOMAIN fields}
AllEdges(r) == IF r.type = "object" THEN {ObjectOf(p) : p \in Varied(r.fields, Edges)} ELSE Edges(r)

\* The targets that a tool builds from its arguments: pageTarget, targetWithTab,
\* targetWithWindow; the tools of kind "root" always name frame 0.
Targets(kind) ==
    CASE kind = "none" -> {{}}
      [] kind = "window" -> {{"windowId"}}
      [] kind = "tab" -> {{}, {"tabId"}}
      [] kind = "page" -> {t \in SUBSET {"tabId", "rootFrame", "childFrame", "documentId"} :
                              ~({"rootFrame", "childFrame"} \subseteq t)}
      [] kind = "document" -> SUBSET {"tabId", "documentId"}
      [] kind = "root" -> {{"rootFrame"} \cup t : t \in SUBSET {"tabId", "documentId"}}
      [] kind = "rootOfTab" -> {{"rootFrame"}, {"rootFrame", "tabId"}}

----------------------------------------------------------------------------
(* sendRaw.                                                                *)

CommandUsesTab(command) ==
    command \notin {"browser.ping", "windows.list", "windows.get", "windows.create",
        "windows.update", "windows.focus", "windows.close", "tabs.create", "tabs.list",
        "tabs.group", "tabs.ungroup", "tabGroups.update", "sessions.recentlyClosed",
        "sessions.restore"}

\* resolveTarget: the explicit tab, or the selected one.
ResolveTarget(command, target) ==
    IF CommandUsesTab(command) /\ selected THEN target \cup {"tabId"} ELSE target

Probed(command) ==
    /\ policy
    /\ CommandUsesTab(command) \/ command = "tabs.create"
    /\ command \notin {"tabs.get", "emulation.reset"}

NoCall == [command |-> "none"]

\* browser_select_tab.
SelectTab ==
    /\ stage = "idle" /\ ~selected
    /\ selected' = TRUE
    /\ UNCHANGED <<policy, call, stage>>

\* A tool handler accepts its arguments and sendRaw resolves the target; the
\* server refuses a frame or a document without a tab.  The margin is what the
\* client's timeoutMs leaves over what a performance capture must have.
CallTool(command, params, target) ==
    LET resolved == ResolveTarget(command, target)
    IN  /\ stage = "idle"
        /\ \E margin \in IF command = "performance.capture" THEN 0 .. MaxElapsed ELSE {0} :
            call' = [command |-> command, params |-> params, target |-> resolved, margin |-> margin]
        /\ stage' = CASE ~ValidateTarget(resolved) -> "refusedByServer"
                      [] Probed(command) -> "probe"
                      [] OTHER -> "request"
        /\ UNCHANGED <<policy, selected>>

\* enforceTargetPolicy and enforceTabCreationPolicy ask the browser about the tab
\* or the window before the command itself is sent.
Probe ==
    /\ stage = "probe"
    /\ LET asked == IF call.command = "tabs.create" THEN "windows.list" ELSE "tabs.get"
       IN  \/ /\ Accepts(asked, NoFields, call.target)
              /\ stage' \in {"request", "denied"}
           \/ /\ ~Accepts(asked, NoFields, call.target)
              /\ stage' = "refused"
    /\ UNCHANGED <<policy, selected, call>>

\* performance.js: the envelope carries the whole milliseconds that are left, and
\* capture asks for the same second over its duration that the tool asked for.
EnoughTime(left) == call.command = "performance.capture" => left >= 0

\* router.Send, and the extension's verdict on the request.
Request ==
    /\ stage = "request"
    /\ \E elapsed \in 1 .. MaxElapsed :
        stage' = IF /\ Accepts(call.command, call.params, call.target)
                    /\ EnoughTime(call.margin - elapsed)
                 THEN "accepted" ELSE "refused"
    /\ UNCHANGED <<policy, selected, call>>

Return ==
    /\ stage \in {"refusedByServer", "denied", "refused", "accepted"}
    /\ stage' = "idle" /\ call' = NoCall
    /\ UNCHANGED <<policy, selected>>

Init == policy \in BOOLEAN /\ selected = FALSE /\ call = NoCall /\ stage = "idle"

Calls(tool) == Varied(tool.fields, AllEdges)

Next ==
    \/ SelectTab
    \/ \E command \in DOMAIN Tools : \E tool \in Tools[command] :
        \E params \in Calls(tool), target \in Targets(tool.target) :
            CallTool(command, params, target)
    \/ Probe
    \/ Request
    \/ Return

Spec == Init /\ [][Next]_vars

----------------------------------------------------------------------------
(* Properties.                                                             *)

FramesOf(target) == target \cap {"rootFrame", "childFrame", "documentId"}

\* The limits of the tools and of the extension's validators agree: the extension
\* refuses a call that a tool let through only in the three known cases.  The
\* policy asked about a tab with the frame or document of the call (tools.go:1022),
\* a browser-wide command was given the selected tab (tools.go:1239), or a
\* performance capture left less than the second the extension wants
\* (performance.js:92).  In particular no limit on a number, a text, a list or
\* a combination of fields differs between the two languages, and no tool names
\* a frame where the validator wants none.
LimitsAgree ==
    stage = "refused" =>
        \/ Probed(call.command) /\ FramesOf(call.target) # {}
        \/ call.command \in DOMAIN (DownloadTools @@ PersonalDataTools) /\ selected
        \/ call.command = "performance.capture" /\ call.margin < MaxElapsed

\* README.md: page tools accept optional tabId, frameId and documentId.  A call
\* that the server let through, in the configuration app.go builds (a policy is
\* always set), is not refused for naming a frame or a document of its tab.
PageTargetsAccepted ==
    stage = "refused" /\ policy => FramesOf(call.target) = {}
====
