------------------------------- MODULE MCAssets -------------------------------
(* A small instance of Assets.                                              *)
EXTENDS Assets

FewThemes == <<"light", "dark", "retro">>

theme(n, flags) == [name |-> n, flags |-> flags]
default == {"--default"}
prefersdark == {"--prefersdark"}
listed(themes, custom) == [all |-> FALSE, themes |-> themes, custom |-> custom]
lightAndDark == <<theme("light", default), theme("dark", prefersdark)>>

\* application.tailwind.css as it is; every theme; one theme, with and without flags;
\* several with the same flag; none.
SomeOptions ==
    { listed(lightAndDark, default),
      listed(lightAndDark, {}),
      [all |-> TRUE, themes |-> <<>>, custom |-> {}],
      listed(<<theme("retro", default \cup prefersdark)>>, {}),
      listed(<<theme("dark", prefersdark)>>, default \cup prefersdark),
      listed(<<theme("light", default), theme("retro", default \cup prefersdark),
               theme("dark", prefersdark)>>, {}),
      listed(<<>>, {}) }

\* The application's layout names its theme on the body, those of the sign-in and the
\* marketing pages name none.
BodyThemes == {Custom, None}
===============================================================================
