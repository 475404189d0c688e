---------------------------- MODULE MCModernizr ----------------------------
EXTENDS Modernizr

StyleProperties ==
    {"flexWrap", "backgroundSize", "borderImage", "borderRadius", "boxShadow", "textShadow",
     "opacity", "animationName", "columnCount", "gradient", "transform", "perspective",
     "transition"}

\* One that knows nearly everything.
Modern ==
    [props |-> {<<"", p>> : p \in StyleProperties \cup {"indexedDB"}}
               \cup {<<"type", t>> : t \in InputTypes} \cup {<<"sanitizes", "date">>}
               \cup {<<"attribute", a>> : a \in InputAttributes} \cup {<<"on", "hashchange">>},
     has |-> {"getContext", "2d", "fillText", "WebGLRenderingContext", "ontouchstart",
              "geolocation", "postMessage", "pushState", "draggable", "WebSocket", "rgba",
              "hsla", "three urls", "font-face", "content", "canPlayType", "setItem",
              "Worker", "createElementNS", "createSVGRect", "inline svg", "SVGAnimate",
              "SVGClipPath", "checkValidity", "slider", "HTMLDataListElement", "unknown",
              "hidden"}]

\* An early WebKit: prefixes, no hsla, a property of three dimensions that is not
\* drawn.
Early ==
    [props |-> {<<"Webkit", p>> : p \in StyleProperties \ {"opacity"}}
               \cup {<<"", "opacity">>, <<"type", "range">>, <<"type", "search">>,
                     <<"attribute", "list">>, <<"attribute", "hashchange">>},
     has |-> {"getContext", "2d", "rgba", "webkitPerspective", "WebkitAppearance", "content",
              "unknown"}]

\* One without the elements of HTML5, to be shived; getContext gives nothing.
Old ==
    [props |-> {<<"on", "hashchange">>},
     has |-> {"ondragstart", "ondrop", "documentMode7", "postMessage", "font-face", "content",
              "getContext", "fragments"}]

\* One that drops style elements, after it has understood gradients.
Dropping ==
    [props |-> {<<"ms", "gradient">>},
     has |-> {"rgba", "hsla", "keeps hsla", "drops style", "throws"}]

MCBrowsers == {Modern, Early, Old, Dropping}
=============================================================================
