------------------------------- MODULE MCJobs -------------------------------
(* Instances of Jobs for TLC. *)
EXTENDS Jobs, TLC

Pair(a, b) == "j1" :> a @@ "j2" :> b

\* Handlers that meet only the browser and its user.
Alone == {"metrics", "rawCDP", "evaluate", "getTree", "screenshot", "pdf", "page", "click",
          "clickNavigates", "wait", "readCookies", "readSensitiveCookies", "changeCookie",
          "storage", "trace", "audits"}

\* Handlers that ask and change the browser, and no tab.
Browser == {"listDownloads", "createDownload", "controlDownload", "eraseDownload",
            "searchHistory", "deleteURL", "deleteRange", "listBookmarks", "changeBookmark",
            "removeBookmark", "listReadingList", "changeReadingList", "removeReadingList"}

\* Handlers that meet each other: in a queue, in a CDP domain or in the session's end.
Together == {<<"coverage", "cpuProfile">>, <<"setAll", "setFirst">>, <<"setAll", "reset">>,
             <<"setFirst", "get">>, <<"viewport1", "viewport2">>}

AllWorkloads ==
    {Workload(Pair(a, "none"), named, kept, access) :
        a \in Alone, named \in BOOLEAN, kept \in BOOLEAN, access \in {{1}, Documents}}
    \cup {Workload(Pair(a, "none"), FALSE, FALSE, Documents) : a \in Browser}
    \cup {Workload(Pair(t[1], t[2]), FALSE, TRUE, Documents) : t \in Together}

TwoGroups == <<"viewport", "network">>
=============================================================================
